---------------------------- MODULE Spec2Model ----------------------------
(***************************************************************************)
(* Model of the idverify native core (VisionProcessor.cpp, ROIMapper.h,    *)
(* native-lib.cpp).  The library is stateless: every entry point is a      *)
(* function of its arguments.  The state machine is one caller: from       *)
(* "idle" it invokes an operation on arguments drawn from a bounded set;   *)
(* the arguments and the returned value are recorded in args and ret;      *)
(* Return brings the caller back to "idle".  Calls made concurrently are   *)
(* modelled with the memory they use: the process-wide tables, the input   *)
(* buffers of the calls in progress and the frames of their automatic      *)
(* variables; a thread takes one step of its call at a time.               *)
(*                                                                         *)
(* A character is its byte value 0..255 (an ASCII code for 0..127); a      *)
(* std::string is a sequence of characters, TLA+ index i+1 for C++ index i.*)
(* Where char is signed a byte b above 127 is the value b - 256; isdigit   *)
(* is false of it and b - '0' is outside 0..9 either way, so the results   *)
(* are those of the unsigned reading modelled here.                        *)
(***************************************************************************)
EXTENDS Integers, Sequences, FiniteSets, TLC

VARIABLES
    pc,      \* "idle" or "returned"
    args,    \* the operation called and its arguments
    ret,     \* the value it returned
    work,    \* the callee's local working copies when it returned
    tables,  \* the process-wide data: checksum weights and region table
    heap,    \* per thread, the input buffer of its call in progress
    threads, \* per thread, its position, the arguments it passed, the result
    frames   \* the automatic variables of the calls in progress

\* The single caller and the concurrent callers.
caller == <<pc, args, ret, work>>

concurrent == <<tables, heap, threads, frames>>

vars == <<pc, args, ret, work, tables, heap, threads, frames>>

\* The value of args and ret while no call is recorded.
None == [op |-> "none"]

(***************************************************************************)
(* Bounds of the model                                                     *)
(***************************************************************************)
\* Longest data string handed to calculateChecksum / validateCheckDigit
\* besides the fixtures.
MaxDataLen == 3
\* Longest string handed to correctOCRErrors over the sample alphabet.
MaxOcrLen == 2
\* Longest raw MRZ line handed to validateWithScore (the nominal length is 30).
MaxLineLen == 31
\* Most contours findContours hands to the filter loop of findCardCorners.
MaxContours == 3

\* The largest number of pixels of the images detectGlare is called on.
MaxPixels == 3

\* The largest width and height of the warped cards extractROI is called on.
MaxCardDim == 3

\* The largest coordinate of the points orderCorners is called on.
MaxCoord == 2

\* The number of threads calling concurrently.
MaxThreads == 2

(***************************************************************************)
(* C and C++ library primitives used by the source                         *)
(***************************************************************************)
Min(a, b) == IF a <= b THEN a ELSE b

\* C++ a % b for b > 0: the remainder has the sign of a (truncated division).
CRem(a, b) == IF a >= 0 THEN a % b ELSE -((-a) % b)

\* isdigit in the "C" locale: '0'..'9'.
isdigit(c) == c >= 48 /\ c <= 57

\* toupper in the "C" locale: 'a'..'z' -> 'A'..'Z', every other byte unchanged.
toupper(c) == IF c >= 97 /\ c <= 122 THEN c - 32 ELSE c

\* std::string::substr(pos, len) for pos <= size: at most len characters from pos.
substr(s, pos, len) == SubSeq(s, pos + 1, Min(pos + len, Len(s)))

\* std::string::resize(n, c): the first n characters, or the string extended by c.
resize(s, n, c) ==
    IF Len(s) >= n THEN SubSeq(s, 1, n)
    ELSE s \o [i \in 1 .. (n - Len(s)) |-> c]

(***************************************************************************)
(* MRZValidator                                                            *)
(***************************************************************************)
\* The weights in the wrong order.
WEIGHTSMutReversed == <<1, 3, 7>>

\* const int MRZValidator::WEIGHTS[3] = {7, 3, 1};
WEIGHTS == <<7, 3, 1>>

\* The switch applied to the character as read, not to its upper case.
correctOCRCharMutNoUpper(c) ==
    LET upper == c IN
    CASE upper = 79 -> 48
      [] upper = 73 -> 49
      [] upper = 83 -> 53
      [] upper = 66 -> 56
      [] upper = 71 -> 54
      [] upper = 68 -> 48
      [] upper = 81 -> 48
      [] upper = 90 -> 50
      [] upper = 32 -> 60
      [] upper = 46 -> 60
      [] OTHER ->
           IF \/ (upper >= 65 /\ upper <= 90)
              \/ (upper >= 48 /\ upper <= 57)
              \/ upper = 60
           THEN upper
           ELSE 60

\* One iteration of the loop of correctOCRErrors: uppercase, then the switch.
correctOCRChar(c) ==
    LET upper == toupper(c) IN
    CASE upper = 79 -> 48      \* 'O' -> '0'
      [] upper = 73 -> 49      \* 'I' -> '1'
      [] upper = 83 -> 53      \* 'S' -> '5'
      [] upper = 66 -> 56      \* 'B' -> '8'
      [] upper = 71 -> 54      \* 'G' -> '6'
      [] upper = 68 -> 48      \* 'D' -> '0'
      [] upper = 81 -> 48      \* 'Q' -> '0'
      [] upper = 90 -> 50      \* 'Z' -> '2'
      [] upper = 32 -> 60      \* ' ' -> '<'
      [] upper = 46 -> 60      \* '.' -> '<'
      [] OTHER ->
           IF \/ (upper >= 65 /\ upper <= 90)
              \/ (upper >= 48 /\ upper <= 57)
              \/ upper = 60
           THEN upper
           ELSE 60

\* The loop appends one corrected character per input character, in order.
RECURSIVE correctOCRLoop(_, _, _)
correctOCRLoop(line, i, corrected) ==
    IF i >= Len(line) THEN corrected
    ELSE correctOCRLoop(line, i + 1, Append(corrected, correctOCRChar(line[i + 1])))

correctOCRErrors(line) == correctOCRLoop(line, 0, <<>>)

charToValue(c) ==
    IF c >= 48 /\ c <= 57 THEN c - 48
    ELSE IF c >= 65 /\ c <= 90 THEN c - 65 + 10
    ELSE IF c = 60 THEN 0
    ELSE 0

\* for (size_t i = 0; i < data.length(); ++i) sum += value * WEIGHTS[i % 3];
RECURSIVE checksumLoop(_, _, _)
checksumLoop(data, i, sum) ==
    IF i >= Len(data) THEN sum
    ELSE checksumLoop(data, i + 1,
                      sum + charToValue(data[i + 1]) * WEIGHTS[(i % 3) + 1])

calculateChecksum(data) == CRem(checksumLoop(data, 0, 0), 10)

\* The check character valued like a data character: a filler counts as 0.
validateCheckDigitMutFillerIsZero(data, checkDigit) ==
    calculateChecksum(data) = charToValue(checkDigit)

validateCheckDigit(data, checkDigit) ==
    IF ~isdigit(checkDigit) THEN FALSE
    ELSE LET expected == calculateChecksum(data)
             actual   == checkDigit - 48
         IN  expected = actual

\* The digit loop of validateTCKN: returns at the first non-digit among the
\* first 9 characters, else the three sums.
RECURSIVE tcknLoop(_, _, _, _, _)
tcknLoop(tckn, i, odds, evens, sum10) ==
    IF i >= 9 THEN [digits |-> TRUE, odds |-> odds, evens |-> evens, sum10 |-> sum10]
    ELSE IF ~isdigit(tckn[i + 1])
    THEN [digits |-> FALSE, odds |-> odds, evens |-> evens, sum10 |-> sum10]
    ELSE LET digit == tckn[i + 1] - 48
         IN  tcknLoop(tckn, i + 1,
                      IF i % 2 = 0 THEN odds + digit ELSE odds,
                      IF i % 2 = 0 THEN evens ELSE evens + digit,
                      sum10 + digit)

\* The negative remainder is not brought back into 0..9.
validateTCKNMutNoNormalise(tckn) ==
    IF Len(tckn) # 11 THEN FALSE
    ELSE IF tckn[1] = 48 THEN FALSE
    ELSE LET sums == tcknLoop(tckn, 0, 0, 0, 0) IN
         IF ~sums.digits THEN FALSE
         ELSE LET digit10 == CRem((sums.odds * 7) - sums.evens, 10) IN
              IF digit10 # tckn[10] - 48 THEN FALSE
              ELSE CRem(sums.sum10 + digit10, 10) = tckn[11] - 48

\* The 11th character is not compared.
validateTCKNMutNoDigit11(tckn) ==
    IF Len(tckn) # 11 THEN FALSE
    ELSE IF tckn[1] = 48 THEN FALSE
    ELSE LET sums == tcknLoop(tckn, 0, 0, 0, 0) IN
         IF ~sums.digits THEN FALSE
         ELSE LET rem10   == CRem((sums.odds * 7) - sums.evens, 10)
                  digit10 == IF rem10 < 0 THEN rem10 + 10 ELSE rem10
              IN  digit10 = tckn[10] - 48

\* The 10th character is compared modulo 10.
validateTCKNMutDigit10Modulo(tckn) ==
    IF Len(tckn) # 11 THEN FALSE
    ELSE IF tckn[1] = 48 THEN FALSE
    ELSE LET sums == tcknLoop(tckn, 0, 0, 0, 0) IN
         IF ~sums.digits THEN FALSE
         ELSE LET rem10   == CRem((sums.odds * 7) - sums.evens, 10)
                  digit10 == IF rem10 < 0 THEN rem10 + 10 ELSE rem10
              IN  IF digit10 # CRem(tckn[10] - 48, 10) THEN FALSE
                  ELSE LET digit11 == CRem(sums.sum10 + digit10, 10)
                       IN  digit11 = tckn[11] - 48

validateTCKN(tckn) ==
    IF Len(tckn) # 11 THEN FALSE
    ELSE IF tckn[1] = 48 THEN FALSE
    ELSE LET sums == tcknLoop(tckn, 0, 0, 0, 0) IN
         IF ~sums.digits THEN FALSE
         ELSE LET rem10   == CRem((sums.odds * 7) - sums.evens, 10)
                  digit10 == IF rem10 < 0 THEN rem10 + 10 ELSE rem10
              IN  IF digit10 # tckn[10] - 48 THEN FALSE
                  ELSE LET digit11 == CRem(sums.sum10 + digit10, 10)
                       IN  digit11 = tckn[11] - 48

\* ValidationScore score = {0, 0, 0, 0, 0, false, false, false, false, "", "", ""};
initialScore ==
    [totalScore |-> 0, docNumScore |-> 0, dobScore |-> 0, expiryScore |-> 0,
     compositeScore |-> 0, docNumValid |-> FALSE, dobValid |-> FALSE,
     expiryValid |-> FALSE, compositeValid |-> FALSE,
     correctedLine1 |-> <<>>, correctedLine2 |-> <<>>, correctedLine3 |-> <<>>]

\* The raw line resized without the correction.
workingLineMutRaw(lineRaw) == resize(lineRaw, 30, 60)

\* The line after resize only extended it: a longer line keeps its tail.
workingLineMutPadOnly(lineRaw) ==
    LET line == correctOCRErrors(lineRaw)
    IN  IF Len(line) >= 30 THEN line ELSE resize(line, 30, 60)

\* A line longer than 30 characters keeps its last 30.
workingLineMutKeepsTail(lineRaw) ==
    LET line == correctOCRErrors(lineRaw)
    IN  IF Len(line) > 30 THEN SubSeq(line, Len(line) - 29, Len(line))
        ELSE resize(line, 30, 60)

\* The line is padded with '0'.
workingLineMutPadsWithZero(lineRaw) == resize(correctOCRErrors(lineRaw), 30, 48)

\* string line = correctOCRErrors(lineRaw); ... line.resize(30, '<');
workingLine(lineRaw) == resize(correctOCRErrors(lineRaw), 30, 60)

\* 1. Document number: line1[5..13] against line1[14].  The TCKN found at
\* line1[16..26] is only logged.
docNumCheck(score, line1) ==
    IF Len(line1) >= 15
    THEN LET docNum      == substr(line1, 5, 9)
             docNumCheck_ == line1[15]
         IN  IF validateCheckDigit(docNum, docNumCheck_)
             THEN [score EXCEPT !.docNumValid = TRUE, !.docNumScore = 15]
             ELSE score
    ELSE score

\* 2. Birth date: line2[0..5] against line2[6].
dobCheck(score, line2) ==
    IF Len(line2) >= 7
    THEN LET dob      == substr(line2, 0, 6)
             dobCheck_ == line2[7]
         IN  IF validateCheckDigit(dob, dobCheck_)
             THEN [score EXCEPT !.dobValid = TRUE, !.dobScore = 15]
             ELSE score
    ELSE score

\* 3. Expiry date: line2[8..13] against line2[14].
expiryCheck(score, line2) ==
    IF Len(line2) >= 15
    THEN LET expiry      == substr(line2, 8, 6)
             expiryCheck_ == line2[15]
         IN  IF validateCheckDigit(expiry, expiryCheck_)
             THEN [score EXCEPT !.expiryValid = TRUE, !.expiryScore = 15]
             ELSE score
    ELSE score

\* 4. Composite: line1[5..29] + line2[0..6] + line2[8..14] + line2[18..28]
\* against line2[29].
compositeCheck(score, line1, line2) ==
    IF Len(line1) >= 30 /\ Len(line2) >= 30
    THEN LET compositeData == substr(line1, 5, 25) \o substr(line2, 0, 7)
                              \o substr(line2, 8, 7) \o substr(line2, 18, 11)
             compositeCheck_ == line2[30]
         IN  IF validateCheckDigit(compositeData, compositeCheck_)
             THEN [score EXCEPT !.compositeValid = TRUE, !.compositeScore = 15]
             ELSE score
    ELSE score

\* The composite score left out of the total.
sumScoresMutNoComposite(score) ==
    [score EXCEPT !.totalScore = score.docNumScore + score.dobScore + score.expiryScore]

\* score.totalScore = docNumScore + dobScore + expiryScore + compositeScore;
sumScores(score) ==
    [score EXCEPT !.totalScore = score.docNumScore + score.dobScore
                                 + score.expiryScore + score.compositeScore]

\* The local working copies line1, line2, line3 of validateWithScore.
validateWithScoreLocals(line1Raw, line2Raw, line3Raw) ==
    [line1 |-> workingLine(line1Raw),
     line2 |-> workingLine(line2Raw),
     line3 |-> workingLine(line3Raw)]

\* correctedLine1/2/3 are assigned after the resize.
validateWithScoreMutCorrectedAfterResize(line1Raw, line2Raw, line3Raw) ==
    LET locals == validateWithScoreLocals(line1Raw, line2Raw, line3Raw)
        score0 == [initialScore EXCEPT
                      !.correctedLine1 = locals.line1,
                      !.correctedLine2 = locals.line2,
                      !.correctedLine3 = locals.line3]
        score1 == docNumCheck(score0, locals.line1)
        score2 == dobCheck(score1, locals.line2)
        score3 == expiryCheck(score2, locals.line2)
        score4 == compositeCheck(score3, locals.line1, locals.line2)
    IN  sumScores(score4)

validateWithScore(line1Raw, line2Raw, line3Raw) ==
    LET locals == validateWithScoreLocals(line1Raw, line2Raw, line3Raw)
        score0 == [initialScore EXCEPT
                      !.correctedLine1 = correctOCRErrors(line1Raw),
                      !.correctedLine2 = correctOCRErrors(line2Raw),
                      !.correctedLine3 = correctOCRErrors(line3Raw)]
        score1 == docNumCheck(score0, locals.line1)
        score2 == dobCheck(score1, locals.line2)
        score3 == expiryCheck(score2, locals.line2)
        score4 == compositeCheck(score3, locals.line1, locals.line2)
    IN  sumScores(score4)

(***************************************************************************)
(* VisionProcessor: corner detection                                       *)
(*                                                                         *)
(* A point is [x, y] with integer coordinates.  A frame is [rows, cols,    *)
(* contours]: contours is what findContours returns for the frame after    *)
(* the grayscale, blur, Canny and dilate steps, in extraction order; each  *)
(* contour is [area, approx], the values contourArea and approxPolyDP      *)
(* return for it.  Areas are whole pixels.  A float or double is the       *)
(* rational [num, den] it holds; the sample polygons have sides of integer *)
(* length, on which the floating-point results are exact.                  *)
(***************************************************************************)
\* The permutations of four positions.
Perm4 ==
    {<<1, 2, 3, 4>>,
     <<1, 2, 4, 3>>,
     <<1, 3, 2, 4>>,
     <<1, 3, 4, 2>>,
     <<1, 4, 2, 3>>,
     <<1, 4, 3, 2>>,
     <<2, 1, 3, 4>>,
     <<2, 1, 4, 3>>,
     <<2, 3, 1, 4>>,
     <<2, 3, 4, 1>>,
     <<2, 4, 1, 3>>,
     <<2, 4, 3, 1>>,
     <<3, 1, 2, 4>>,
     <<3, 1, 4, 2>>,
     <<3, 2, 1, 4>>,
     <<3, 2, 4, 1>>,
     <<3, 4, 1, 2>>,
     <<3, 4, 2, 1>>,
     <<4, 1, 2, 3>>,
     <<4, 1, 3, 2>>,
     <<4, 2, 1, 3>>,
     <<4, 2, 3, 1>>,
     <<4, 3, 1, 2>>,
     <<4, 3, 2, 1>>}

\* std::sort with the comparator a.y < b.y: any arrangement in which no point
\* is followed by a point of smaller y (the order of points of equal y is
\* left to the library).
sortByY(pts) ==
    {<<pts[g[1]], pts[g[2]], pts[g[3]], pts[g[4]]>> : g \in {f \in Perm4 :
        /\ ~(pts[f[2]].y < pts[f[1]].y) /\ ~(pts[f[3]].y < pts[f[2]].y) /\ ~(pts[f[4]].y < pts[f[3]].y)}}

\* The bottom pair is left in its order by y.
swapAndReorderMutNoBottomSwap(pts) ==
    LET tl == IF pts[1].x > pts[2].x THEN pts[2] ELSE pts[1]
        tr == IF pts[1].x > pts[2].x THEN pts[1] ELSE pts[2]
    IN  <<tl, tr, pts[4], pts[3]>>

\* if (pts[0].x > pts[1].x) swap; if (pts[2].x > pts[3].x) swap;
\* return {pts[0], pts[1], pts[3], pts[2]};
swapAndReorder(pts) ==
    LET tl == IF pts[1].x > pts[2].x THEN pts[2] ELSE pts[1]
        tr == IF pts[1].x > pts[2].x THEN pts[1] ELSE pts[2]
        bl == IF pts[3].x > pts[4].x THEN pts[4] ELSE pts[3]
        br == IF pts[3].x > pts[4].x THEN pts[3] ELSE pts[4]
    IN  <<tl, tr, br, bl>>

\* The results orderCorners can return: (TL, TR, BR, BL), or empty.
orderCorners(corners) ==
    IF Len(corners) # 4 THEN {<<>>}
    ELSE {swapAndReorder(s) : s \in sortByY(corners)}

\* The largest n with n * n <= d.
RECURSIVE isqrtFrom(_, _)
isqrtFrom(d, n) == IF (n + 1) * (n + 1) > d THEN n ELSE isqrtFrom(d, n + 1)

\* cv::norm(a - b): the Euclidean length, exact when it is an integer.
norm(a, b) == isqrtFrom((a.x - b.x) * (a.x - b.x) + (a.y - b.y) * (a.y - b.y), 0)

\* avgWidth / avgHeight of one ordering, 0 if avgHeight < 1.
aspectRatioOf(ordered) ==
    LET width1  == norm(ordered[2], ordered[1])
        width2  == norm(ordered[3], ordered[4])
        height1 == norm(ordered[4], ordered[1])
        height2 == norm(ordered[3], ordered[2])
    IN  IF height1 + height2 < 2 THEN [num |-> 0, den |-> 1]
        ELSE [num |-> width1 + width2, den |-> height1 + height2]

\* The values calculateAspectRatio can return.
calculateAspectRatio(corners) ==
    IF Len(corners) # 4 THEN {[num |-> 0, den |-> 1]}
    ELSE {aspectRatioOf(ordered) : ordered \in orderCorners(corners)}

\* The z component of (b - a) x (c - b).
cross(a, b, c) == (b.x - a.x) * (c.y - b.y) - (b.y - a.y) * (c.x - b.x)

\* cv::isContourConvex: every turn of the closed polygon has the same
\* orientation.
isContourConvex(approx) ==
    LET n == Len(approx)
        turn(i) == cross(approx[i], approx[(i % n) + 1], approx[((i + 1) % n) + 1])
    IN  \/ \A i \in 1 .. n : turn(i) > 0
        \/ \A i \in 1 .. n : turn(i) < 0

\* src.empty()
empty(src) == src.rows = 0 \/ src.cols = 0

\* aspectRatio < 0.2f || aspectRatio > 5.0f
ratioRejected(aspectRatio) ==
    \/ aspectRatio.num * 5 < aspectRatio.den
    \/ aspectRatio.num > 5 * aspectRatio.den

\* The area is divided by the whole frame instead of half of it.
confidenceOfMutWholeFrame(src, area) ==
    IF area >= src.rows * src.cols THEN [num |-> 1, den |-> 1]
    ELSE [num |-> area, den |-> src.rows * src.cols]

\* std::min(1.0, area / (src.rows * src.cols * 0.5))
confidenceOf(src, area) ==
    IF 2 * area >= src.rows * src.cols THEN [num |-> 1, den |-> 1]
    ELSE [num |-> 2 * area, den |-> src.rows * src.cols]

\* A candidate of equal score replaces the best one.
isNewBestMutTieReplaces(score, bestScore) == score >= bestScore

\* if (score > bestScore)
isNewBest(score, bestScore) == score > bestScore

\* Small contours are not skipped.
skippedEarlyMutNoMinArea(src, contour) ==
    \/ Len(contour.approx) # 4
    \/ ~isContourConvex(contour.approx)

\* The filters ahead of the aspect ratio: area < minArea, not 4 vertices,
\* not convex.
skippedEarly(src, contour) ==
    \/ contour.area * 100 < src.rows * src.cols * 5
    \/ Len(contour.approx) # 4
    \/ ~isContourConvex(contour.approx)

\* The confidence is assigned before the aspect-ratio filter.
contourStepMutConfidenceBeforeRatio(src, st, contour, aspectRatio) ==
    LET area == contour.area IN
    IF ratioRejected(aspectRatio)
    THEN [st EXCEPT !.confidence = confidenceOf(src, area)]
    ELSE IF isNewBest(area, st.bestScore)
         THEN [bestApprox |-> contour.approx, bestScore |-> area,
               confidence |-> confidenceOf(src, area)]
         ELSE st

\* The rest of one iteration on the loop state
\* [bestApprox, bestScore, confidence], for one value of the aspect ratio.
contourStep(src, st, contour, aspectRatio) ==
    LET area == contour.area IN
    IF ratioRejected(aspectRatio) THEN st
    ELSE IF isNewBest(area, st.bestScore)
         THEN [bestApprox |-> contour.approx, bestScore |-> area,
               confidence |-> confidenceOf(src, area)]
         ELSE st

\* The loop states the contour loop can end in, from contour i (0-based) on.
RECURSIVE contourLoop(_, _, _)
contourLoop(src, i, st) ==
    IF i >= Len(src.contours) THEN {st}
    ELSE LET contour == src.contours[i + 1] IN
         IF skippedEarly(src, contour) THEN contourLoop(src, i + 1, st)
         ELSE UNION {contourLoop(src, i + 1,
                                 contourStep(src, st, contour, aspectRatio)) :
                        aspectRatio \in calculateAspectRatio(contour.approx)}

\* The CornerResult values findCardCorners can return.
findCardCorners(src) ==
    LET undetected == [detected |-> FALSE, confidence |-> [num |-> 0, den |-> 1],
                       corners |-> <<>>]
        st0 == [bestApprox |-> <<>>, bestScore |-> 0,
                confidence |-> [num |-> 0, den |-> 1]]
    IN  IF empty(src) THEN {undetected}
        ELSE IF src.contours = <<>> THEN {undetected}
        ELSE {IF Len(st.bestApprox) = 4
              THEN [detected |-> TRUE, confidence |-> st.confidence,
                    corners |-> st.bestApprox]
              ELSE [detected |-> FALSE, confidence |-> st.confidence,
                    corners |-> <<>>] :
                 st \in contourLoop(src, 0, st0)}

(***************************************************************************)
(* VisionProcessor: images.  A small image is a cv::Mat with its pixels:   *)
(* rows, cols, channels and data, the pixels row by row, each pixel the    *)
(* tuple of its 8-bit channel values.  A card-sized image is described by  *)
(* rows, cols, channels and steps, the processing steps that produced its  *)
(* pixels from the pixels of the source.                                   *)
(***************************************************************************)
\* cv::Mat()
EmptyMat == [rows |-> 0, cols |-> 0, channels |-> 0, data |-> <<>>]

\* cv::Mat() where images carry their processing steps
EmptyImage == [rows |-> 0, cols |-> 0, channels |-> 0, steps |-> <<>>]

\* One processing step and its parameters.
Step(op, params) == [op |-> op, params |-> params]

\* cvtColor to gray on one 8-bit BGR or BGRA pixel: OpenCV's fixed-point
\* (1868 B + 9617 G + 4899 R + 2^13) >> 14.
bgr2gray(px) == (px[1] * 1868 + px[2] * 9617 + px[3] * 4899 + 8192) \div 16384

\* if (channels == 3 || channels == 4) cvtColor(..., gray) else gray = clone
toGray(src) ==
    IF src.channels \in {3, 4}
    THEN [src EXCEPT !.channels = 1,
                     !.data = [i \in DOMAIN src.data |-> <<bgr2gray(src.data[i])>>]]
    ELSE src

\* The comparison includes the threshold itself.
thresholdBinaryMutInclusive(v, thresh, maxval) == IF v >= thresh THEN maxval ELSE 0

\* threshold(..., thresh, maxval, THRESH_BINARY) on one pixel: maxval above
\* the threshold, 0 otherwise.
thresholdBinary(v, thresh, maxval) == IF v > thresh THEN maxval ELSE 0

\* countNonZero on a single-channel image
countNonZero(img) == Cardinality({i \in DOMAIN img.data : img.data[i][1] # 0})

\* VisionProcessor::detectGlare (the mask parameter is not read)
detectGlare(src) ==
    IF empty(src) THEN [num |-> 1, den |-> 1]
    ELSE LET gray == toGray(src)
             bright == [gray EXCEPT !.data =
                           [i \in DOMAIN gray.data |->
                               <<thresholdBinary(gray.data[i][1], 240, 255)>>]]
             totalPixels == gray.rows * gray.cols
             brightPixels == countNonZero(bright)
         IN  [num |-> brightPixels, den |-> totalPixels]

(***************************************************************************)
(* VisionProcessor: perspective warp, binarization, the frame pipeline     *)
(***************************************************************************)
TARGET_WIDTH == 856

TARGET_HEIGHT == 540

\* std::max
Max(a, b) == IF a > b THEN a ELSE b

\* Equal extents count as portrait too.
warpOrderedMutSwapOnEqual(src, ordered) ==
    LET maxWidth  == Max(norm(ordered[2], ordered[1]), norm(ordered[3], ordered[4]))
        maxHeight == Max(norm(ordered[4], ordered[1]), norm(ordered[3], ordered[2]))
        portrait  == maxHeight >= maxWidth
        dstWidth  == IF portrait THEN TARGET_HEIGHT ELSE TARGET_WIDTH
        dstHeight == IF portrait THEN TARGET_WIDTH ELSE TARGET_HEIGHT
    IN  [rows |-> dstHeight, cols |-> dstWidth, channels |-> src.channels,
         steps |-> <<Step("warpPerspective", <<dstWidth, dstHeight>>)>>]

\* warpToID1 from the ordered corners on: the edge lengths, the target size
\* (swapped if maxHeight > maxWidth) and the warp into that size.
warpOrdered(src, ordered) ==
    LET widthTop    == norm(ordered[2], ordered[1])
        widthBottom == norm(ordered[3], ordered[4])
        heightLeft  == norm(ordered[4], ordered[1])
        heightRight == norm(ordered[3], ordered[2])
        maxWidth    == Max(widthTop, widthBottom)
        maxHeight   == Max(heightLeft, heightRight)
        dstWidth    == IF maxHeight > maxWidth THEN TARGET_HEIGHT ELSE TARGET_WIDTH
        dstHeight   == IF maxHeight > maxWidth THEN TARGET_WIDTH ELSE TARGET_HEIGHT
    IN  [rows |-> dstHeight, cols |-> dstWidth, channels |-> src.channels,
         steps |-> <<Step("warpPerspective", <<dstWidth, dstHeight>>)>>]

\* The test of the frame is inverted: a frame with pixels is rejected.
warpToID1MutRejectsFrame(src, corners) ==
    IF Len(corners) # 4 \/ ~empty(src) THEN {EmptyImage}
    ELSE {warpOrdered(src, ordered) : ordered \in orderCorners(corners)}

\* The images VisionProcessor::warpToID1 can return (one per order that
\* orderCorners can produce).
warpToID1(src, corners) ==
    IF Len(corners) # 4 \/ empty(src) THEN {EmptyImage}
    ELSE {warpOrdered(src, ordered) : ordered \in orderCorners(corners)}

\* The steps of binarizeForOCR on an image of the given channel count:
\* grayscale, CLAHE (clip 2.0, 8 x 8 tiles), non-local-means denoising
\* (h 10, windows 7 and 21), adaptive threshold (max 255, block 15, C 10),
\* morphological close (1 x 1 kernel), median blur (3).
binarizeSteps(channels) ==
    (IF channels \in {3, 4} THEN <<Step("cvtColor", <<channels, 1>>)>> ELSE <<>>)
    \o <<Step("CLAHE", <<2, 8, 8>>),
         Step("fastNlMeansDenoising", <<10, 7, 21>>),
         Step("adaptiveThreshold", <<255, 15, 10>>),
         Step("morphologyEx", <<1, 1>>),
         Step("medianBlur", <<3>>)>>

\* VisionProcessor::binarizeForOCR
binarizeForOCR(src) ==
    IF empty(src) THEN EmptyImage
    ELSE [rows |-> src.rows, cols |-> src.cols, channels |-> 1,
          steps |-> src.steps \o binarizeSteps(src.channels)]

\* VisionProcessor::extractMRZRegion: the crop Rect(0, mrzTop, cols,
\* mrzHeight) with mrzTop = (int)(rows * 0.72f), then binarizeForOCR.
extractMRZRegion(src) ==
    IF empty(src) THEN EmptyImage
    ELSE LET mrzTop    == (src.rows * 72) \div 100
             mrzHeight == src.rows - mrzTop
             mrzRegion == [rows |-> mrzHeight, cols |-> src.cols,
                           channels |-> src.channels,
                           steps |-> src.steps
                              \o <<Step("crop", <<0, mrzTop, src.cols, mrzHeight>>)>>]
         IN  binarizeForOCR(mrzRegion)

\* The ProcessedFrame values VisionProcessor::processForOCR can return.
processForOCR(inputRGB) ==
    LET result == [cardDetected |-> FALSE,
                   perspectiveConfidence |-> [num |-> 0, den |-> 1],
                   glareScore |-> [num |-> 1, den |-> 1],
                   normalized |-> EmptyImage, binarized |-> EmptyImage,
                   mrzRegion |-> EmptyImage,
                   cardWidth |-> 0, cardHeight |-> 0]
        detected(corners) ==
           [result EXCEPT !.cardDetected = TRUE,
                          !.perspectiveConfidence = corners.confidence,
                          !.glareScore = detectGlare(inputRGB)]
    IN  IF empty(inputRGB) THEN {result}
        ELSE UNION {
               IF ~corners.detected THEN {result}
               ELSE {IF empty(warped)
                     THEN [detected(corners) EXCEPT !.cardDetected = FALSE]
                     ELSE [detected(corners) EXCEPT
                              !.normalized = warped,
                              !.cardWidth = warped.cols,
                              !.cardHeight = warped.rows,
                              !.binarized = binarizeForOCR(warped),
                              !.mrzRegion = extractMRZRegion(warped)] :
                        warped \in warpToID1(inputRGB, corners.corners)} :
               corners \in findCardCorners(inputRGB)}

(***************************************************************************)
(* ROIMapper: the region table.  The float fractions of the card are kept  *)
(* in hundredths: x |-> 3 stands for 0.03f.                                *)
(***************************************************************************)
\* struct ROIRegion
ROIRegion(x, y, width, height, invertColors, binarizeBlockSize, binarizeC) ==
    [x |-> x, y |-> y, width |-> width, height |-> height,
     invertColors |-> invertColors,
     binarizeBlockSize |-> binarizeBlockSize, binarizeC |-> binarizeC]

FrontROI_TCKN == ROIRegion(3, 20, 28, 12, FALSE, 15, 8)

FrontROI_SURNAME == ROIRegion(3, 38, 55, 10, FALSE, 21, 5)

FrontROI_NAME == ROIRegion(3, 48, 55, 10, FALSE, 21, 5)

FrontROI_BIRTHDATE == ROIRegion(3, 58, 40, 10, FALSE, 17, 6)

FrontROI_SERIAL == ROIRegion(3, 68, 35, 10, FALSE, 15, 7)

FrontROI_PHOTO == ROIRegion(68, 18, 28, 45, FALSE, 0, 0)

BackROI_MRZ == ROIRegion(0, 72, 100, 28, TRUE, 11, 4)

\* enum class ROIType
ROIType == {"TCKN", "SURNAME", "NAME", "MRZ", "PHOTO", "SERIAL", "BIRTHDATE", "EXPIRY"}

\* static_cast<ROIType>(8): a value of the enum's underlying type that names
\* no field.
OutOfRangeType == "ROIType(8)"

\* The values a ROIType parameter can hold.
ROITypeValues == ROIType \cup {OutOfRangeType}

\* MRZ on the front side resolves to the back-side MRZ region.
getROIRegionMutFrontMRZ(type, isBackSide) ==
    IF isBackSide THEN BackROI_MRZ
    ELSE CASE type = "TCKN" -> FrontROI_TCKN
           [] type = "SURNAME" -> FrontROI_SURNAME
           [] type = "NAME" -> FrontROI_NAME
           [] type = "PHOTO" -> FrontROI_PHOTO
           [] type = "SERIAL" -> FrontROI_SERIAL
           [] type = "BIRTHDATE" -> FrontROI_BIRTHDATE
           [] type = "MRZ" -> BackROI_MRZ
           [] OTHER -> FrontROI_TCKN

\* The case of BIRTHDATE is missing from the front-side switch.
getROIRegionMutNoBirthdate(type, isBackSide) ==
    IF isBackSide THEN BackROI_MRZ
    ELSE CASE type = "TCKN" -> FrontROI_TCKN
           [] type = "SURNAME" -> FrontROI_SURNAME
           [] type = "NAME" -> FrontROI_NAME
           [] type = "PHOTO" -> FrontROI_PHOTO
           [] type = "SERIAL" -> FrontROI_SERIAL
           [] OTHER -> FrontROI_TCKN

\* getROIRegion
getROIRegion(type, isBackSide) ==
    IF isBackSide
    THEN CASE type = "MRZ" -> BackROI_MRZ
           [] OTHER -> BackROI_MRZ
    ELSE CASE type = "TCKN" -> FrontROI_TCKN
           [] type = "SURNAME" -> FrontROI_SURNAME
           [] type = "NAME" -> FrontROI_NAME
           [] type = "PHOTO" -> FrontROI_PHOTO
           [] type = "SERIAL" -> FrontROI_SERIAL
           [] type = "BIRTHDATE" -> FrontROI_BIRTHDATE
           [] OTHER -> FrontROI_TCKN

(***************************************************************************)
(* VisionProcessor: region extraction.  The results of the OpenCV filters  *)
(* whose arithmetic is not part of this code base are left open: a filter  *)
(* may return any image of the size and value range it is documented to    *)
(* return.                                                                 *)
(***************************************************************************)
\* Gray levels a filter may put into a pixel.
GrayLevels == {0, 128, 255}

\* The single-channel images of the size of img with pixels from levels.
ImagesLike(img, levels) ==
    {[rows |-> img.rows, cols |-> img.cols, channels |-> 1, data |-> data] :
        data \in [DOMAIN img.data -> {<<v>> : v \in levels}]}

\* GaussianBlur on a gray image
GaussianBlur(gray, ksize) == ImagesLike(gray, GrayLevels)

\* CLAHE::apply on a gray image
claheApply(gray, clipLimit, tiles) == ImagesLike(gray, GrayLevels)

\* adaptiveThreshold(..., maxValue, ADAPTIVE_THRESH_GAUSSIAN_C, THRESH_BINARY,
\* blockSize, C): each pixel is maxValue where it exceeds its local
\* threshold and 0 elsewhere.
adaptiveThreshold(src, maxValue, blockSize, C) == ImagesLike(src, {0, maxValue})

\* threshold(..., 0, maxval, THRESH_BINARY | THRESH_OTSU)
thresholdOtsu(src, maxval) == ImagesLike(src, {0, maxval})

\* bitwise_not on an 8-bit image
bitwise_not(img) ==
    [img EXCEPT !.data = [i \in DOMAIN img.data |-> <<255 - img.data[i][1]>>]]

\* morphologyEx(..., MORPH_CLOSE, kernel) with the 1 x 1 rectangle: dilation
\* and erosion over a single pixel leave the image as it is.
morphologyExClose1x1(img) == img

\* static_cast<int>(fraction * dim), the fraction in hundredths
toPixels(fraction, dim) == (fraction * dim) \div 100

\* The width and height are not raised to 1.
roiRectMutNoMinimum(region, warpedCard) ==
    LET x == Max(0, Min(toPixels(region.x, warpedCard.cols), warpedCard.cols - 1))
        y == Max(0, Min(toPixels(region.y, warpedCard.rows), warpedCard.rows - 1))
        w == Min(toPixels(region.width, warpedCard.cols), warpedCard.cols - x)
        h == Min(toPixels(region.height, warpedCard.rows), warpedCard.rows - y)
    IN  [x |-> x, y |-> y, width |-> w, height |-> h]

\* extractROI: the pixel rectangle of a region on the card, clamped.
roiRect(region, warpedCard) ==
    LET x == Max(0, Min(toPixels(region.x, warpedCard.cols), warpedCard.cols - 1))
        y == Max(0, Min(toPixels(region.y, warpedCard.rows), warpedCard.rows - 1))
        w == Max(1, Min(toPixels(region.width, warpedCard.cols), warpedCard.cols - x))
        h == Max(1, Min(toPixels(region.height, warpedCard.rows), warpedCard.rows - y))
    IN  [x |-> x, y |-> y, width |-> w, height |-> h]

\* warpedCard(roiRect).clone()
cropClone(warpedCard, rect) ==
    [rows |-> rect.height, cols |-> rect.width, channels |-> warpedCard.channels,
     data |-> [k \in 1 .. rect.height * rect.width |->
                 warpedCard.data[(rect.y + (k - 1) \div rect.width) * warpedCard.cols
                                 + rect.x + ((k - 1) % rect.width) + 1]]]

\* The images VisionProcessor::binarizeROI can return.
binarizeROI(roi, region) ==
    IF empty(roi) THEN {EmptyMat}
    ELSE UNION {
           LET inverted == IF region.invertColors THEN bitwise_not(enhanced)
                           ELSE enhanced
               odd == IF region.binarizeBlockSize % 2 = 0
                      THEN region.binarizeBlockSize + 1
                      ELSE region.binarizeBlockSize
               blockSize == Max(3, odd)
               binaries == IF region.binarizeBlockSize > 0
                           THEN adaptiveThreshold(inverted, 255, blockSize,
                                                  region.binarizeC)
                           ELSE thresholdOtsu(inverted, 255)
           IN  {morphologyExClose1x1(binary) : binary \in binaries} :
           enhanced \in claheApply(toGray(roi), 3, 4)}

\* The photo region is binarized like the text regions.
extractROIMutPhotoBinarized(warpedCard, type, isBackSide) ==
    IF empty(warpedCard) THEN {EmptyMat}
    ELSE LET region == getROIRegion(type, isBackSide)
             roi == cropClone(warpedCard, roiRect(region, warpedCard))
         IN  IF type = "MRZ"
             THEN UNION {adaptiveThreshold(blurred, 255, 13, 10) :
                            blurred \in GaussianBlur(toGray(roi), 3)}
             ELSE binarizeROI(roi, region)

\* The images VisionProcessor::extractROI can return.
extractROI(warpedCard, type, isBackSide) ==
    IF empty(warpedCard) THEN {EmptyMat}
    ELSE LET region == getROIRegion(type, isBackSide)
             roi == cropClone(warpedCard, roiRect(region, warpedCard))
         IN  IF type = "PHOTO" THEN {roi}
             ELSE IF type = "MRZ"
             THEN UNION {adaptiveThreshold(blurred, 255, 13, 10) :
                            blurred \in GaussianBlur(toGray(roi), 3)}
             ELSE binarizeROI(roi, region)

\* The filters binarizeROI applies after the grayscale conversion, with
\* their parameters.
binarizeROIFilters(region) ==
    LET odd == IF region.binarizeBlockSize % 2 = 0
               THEN region.binarizeBlockSize + 1
               ELSE region.binarizeBlockSize
        blockSize == Max(3, odd)
    IN  <<Step("CLAHE", <<3, 4, 4>>)>>
        \o (IF region.invertColors THEN <<Step("bitwise_not", <<>>)>> ELSE <<>>)
        \o (IF region.binarizeBlockSize > 0
            THEN <<Step("adaptiveThreshold", <<255, blockSize, region.binarizeC>>)>>
            ELSE <<Step("threshold", <<0, 255, "OTSU">>)>>)
        \o <<Step("morphologyEx", <<"CLOSE", 1, 1>>)>>

\* The filters extractROI applies to the crop: none for PHOTO, the blur and
\* the threshold of the MRZ branch for MRZ, those of binarizeROI otherwise.
extractROIFilters(type, region) ==
    IF type = "PHOTO" THEN <<>>
    ELSE IF type = "MRZ"
    THEN <<Step("GaussianBlur", <<3, 3, 0>>),
           Step("adaptiveThreshold", <<255, 13, 10>>)>>
    ELSE binarizeROIFilters(region)

\* The locals of extractROI when it returns: the region looked up, the
\* rectangle cropped and the filters applied to the crop.
extractROILocals(warpedCard, type, isBackSide) ==
    IF empty(warpedCard) THEN None
    ELSE LET region == getROIRegion(type, isBackSide)
         IN  [op |-> "extractROI", region |-> region,
              roiRect |-> roiRect(region, warpedCard),
              filters |-> extractROIFilters(type, region)]

(***************************************************************************)
(* VisionProcessor: blur and stability scores                              *)
(***************************************************************************)
\* Variances of the Laplacian that meanStdDev may report for an image.
LaplacianVariances == {0, 2, 5, 7}

\* The scores VisionProcessor::calculateBlurScore can return:
\* min(100.0, variance * 20.0), and 0 for an empty image.
calculateBlurScore(src) ==
    IF empty(src) THEN {0}
    ELSE {Min(100, variance * 20) : variance \in LaplacianVariances}

\* The sum of the first n pixels of absdiff(currGray, prevGray).
RECURSIVE sumAbsDiff(_, _, _)
sumAbsDiff(currGray, prevGray, n) ==
    IF n = 0 THEN 0
    ELSE LET c == currGray.data[n][1]
             p == prevGray.data[n][1]
         IN  sumAbsDiff(currGray, prevGray, n - 1) + (IF c >= p THEN c - p ELSE p - c)

\* Mean differences that two frames of different sizes may show once both
\* are resized to 200 x 126.
ResizedMeanDiffs == {0, 51, 255}

\* The values VisionProcessor::calculateStability can return:
\* 1 - mean(absdiff) / 255, and 0 if a frame is empty.
calculateStability(current, previous) ==
    IF empty(current) \/ empty(previous) THEN {[num |-> 0, den |-> 1]}
    ELSE IF current.rows # previous.rows \/ current.cols # previous.cols
    THEN {[num |-> 255 - meanDiff, den |-> 255] : meanDiff \in ResizedMeanDiffs}
    ELSE LET currGray == toGray(current)
             prevGray == toGray(previous)
             n == currGray.rows * currGray.cols
         IN  {[num |-> 255 * n - sumAbsDiff(currGray, prevGray, n), den |-> 255 * n]}

(***************************************************************************)
(* native-lib: the JNI entry points.  An entry point ends with a value     *)
(* returned to the Java caller, with a C++ exception leaving the native    *)
(* function, or with the process brought down.                             *)
(***************************************************************************)
Value(v) == [kind |-> "value", value |-> v]

Escaped == [kind |-> "exception"]

Crashed == [kind |-> "crash"]

\* nullptr as a jobject
Null == [object |-> "null"]

\* bitmapToMat: the pixels as a CV_8UC4 image, or an empty image if the
\* bitmap info cannot be read, the format is not RGBA_8888 or the pixels
\* cannot be locked.
bitmapToMat(bitmap) ==
    IF ~bitmap.info \/ bitmap.format # "RGBA_8888" \/ ~bitmap.lock THEN EmptyMat
    ELSE bitmap.mat

\* matToBitmap: nullptr for an empty image or if the new bitmap cannot be
\* created, read or locked; else the bitmap holding the image.
matToBitmap(src, created) ==
    IF empty(src) THEN Null
    ELSE IF ~created THEN Null
    ELSE [object |-> "bitmap", mat |-> src]

\* cvtColor(src, bgr, COLOR_RGBA2BGR)
rgba2bgr(src) ==
    [src EXCEPT !.channels = 3,
                !.data = [i \in DOMAIN src.data |->
                            <<src.data[i][3], src.data[i][2], src.data[i][1]>>]]

\* static_cast<jint>(score * 100) of a score num / den
toPercent(score) == (score.num * 100) \div score.den

\* Java_..._processImageForOCR: throws says that a call inside the try block
\* throws.
jniProcessImageForOCR(bitmap, throws, created) ==
    IF throws THEN {Value(Null)}
    ELSE LET src == bitmapToMat(bitmap) IN
         IF empty(src) THEN {Value(Null)}
         ELSE {IF ~result.cardDetected \/ empty(result.binarized) THEN Value(Null)
               ELSE Value(matToBitmap(result.binarized, created)) :
                  result \in processForOCR(rgba2bgr(src))}

\* Java_..._extractMRZRegion
jniExtractMRZRegion(bitmap, throws, created) ==
    IF throws THEN {Value(Null)}
    ELSE LET src == bitmapToMat(bitmap) IN
         IF empty(src) THEN {Value(Null)}
         ELSE {IF ~result.cardDetected \/ empty(result.mrzRegion) THEN Value(Null)
               ELSE Value(matToBitmap(result.mrzRegion, created)) :
                  result \in processForOCR(rgba2bgr(src))}

\* Java_..._validateMRZWithScore: there is no try block.  chars says that
\* GetStringUTFChars returns the characters; if it returns NULL a
\* std::string is built from a null pointer, which is undefined.
jniValidateMRZWithScore(line1, line2, line3, chars, throws) ==
    IF ~chars THEN {Escaped, Crashed}
    ELSE IF throws THEN {Escaped}
    ELSE {Value(validateWithScore(line1, line2, line3).totalScore)}

\* Java_..._detectGlare
jniDetectGlare(bitmap, throws) ==
    IF throws THEN {Value(100)}
    ELSE LET src == bitmapToMat(bitmap) IN
         IF empty(src) THEN {Value(100)}
         ELSE {Value(toPercent(detectGlare(rgba2bgr(src))))}

\* Java_..._validateTCKNNative: there is no try block.
jniValidateTCKNNative(tckn, chars, throws) ==
    IF ~chars THEN {Escaped, Crashed}
    ELSE IF throws THEN {Escaped}
    ELSE {Value(validateTCKN(tckn))}

\* Java_..._getCardConfidence
jniGetCardConfidence(bitmap, throws) ==
    IF throws THEN {Value(0)}
    ELSE LET src == bitmapToMat(bitmap) IN
         IF empty(src) THEN {Value(0)}
         ELSE {Value(toPercent(corners.confidence)) :
                  corners \in findCardCorners(rgba2bgr(src))}

\* Java_..._extractROI
jniExtractROI(bitmap, roiType, isBackSide, throws, created) ==
    IF throws THEN {Value(Null)}
    ELSE LET src == bitmapToMat(bitmap) IN
         IF empty(src) THEN {Value(Null)}
         ELSE LET bgr == IF src.channels = 4 THEN rgba2bgr(src) ELSE src IN
              {IF empty(roi) THEN Value(Null) ELSE Value(matToBitmap(roi, created)) :
                  roi \in extractROI(bgr, roiType, isBackSide)}

\* Java_..._calculateBlurScore
jniCalculateBlurScore(bitmap, throws) ==
    IF throws THEN {Value(0)}
    ELSE LET src == bitmapToMat(bitmap) IN
         IF empty(src) THEN {Value(0)}
         ELSE {Value(score) : score \in calculateBlurScore(src)}

\* Java_..._calculateStability
jniCalculateStability(currentBitmap, previousBitmap, throws) ==
    IF throws THEN {Value([num |-> 0, den |-> 1])}
    ELSE LET current == bitmapToMat(currentBitmap)
             previous == bitmapToMat(previousBitmap)
         IN  IF empty(current) \/ empty(previous) THEN {Value([num |-> 0, den |-> 1])}
             ELSE {Value(stability) :
                      stability \in calculateStability(current, previous)}

\* Java_..._warpToID1
jniWarpToID1(bitmap, throws, created) ==
    IF throws THEN {Value(Null)}
    ELSE LET src == bitmapToMat(bitmap) IN
         IF empty(src) THEN {Value(Null)}
         ELSE LET bgr == rgba2bgr(src) IN
              UNION {IF ~corners.detected THEN {Value(Null)}
                     ELSE {IF empty(warped) THEN Value(Null)
                           ELSE Value(matToBitmap(warped, created)) :
                              warped \in warpToID1(bgr, corners.corners)} :
                        corners \in findCardCorners(bgr)}

(***************************************************************************)
(* Concurrent calls.  A thread calls an operation on an input buffer of    *)
(* its own and executes it in steps; between two steps of one thread any   *)
(* other thread may take steps.  A step reads the process-wide tables and  *)
(* the thread's input buffer and reads and writes the frame of the call.   *)
(***************************************************************************)
\* The threads calling into the library.
Threads == 1 .. MaxThreads

\* The process-wide data after static initialisation: WEIGHTS and the
\* constexpr regions.
InitialTables ==
    [WEIGHTS |-> WEIGHTS,
     FrontROI |-> [TCKN |-> FrontROI_TCKN, SURNAME |-> FrontROI_SURNAME,
                   NAME |-> FrontROI_NAME, BIRTHDATE |-> FrontROI_BIRTHDATE,
                   SERIAL |-> FrontROI_SERIAL, PHOTO |-> FrontROI_PHOTO],
     BackROI |-> [MRZ |-> BackROI_MRZ]]

\* The locals have static storage: every call uses the same frame.
frameOfMutStatic(t) == 1

\* The locals of a call have automatic storage: the call of thread t has a
\* frame of its own.  A frame holds the locals of each function.
frameOf(t) == t

\* calculateChecksum on entry: int sum = 0; size_t i = 0;
checksumEntry == [i |-> 0, sum |-> 0]

\* One iteration of the loop of calculateChecksum: reads data[i] and
\* WEIGHTS[i % 3], writes sum and i.
checksumIteration(tab, data, l) ==
    [l EXCEPT !.sum = l.sum + charToValue(data[l.i + 1]) * tab.WEIGHTS[(l.i % 3) + 1],
              !.i = l.i + 1]

\* correctOCRErrors on entry: std::string corrected; the loop at the first
\* character.
correctEntry == [i |-> 0, corrected |-> <<>>]

\* One iteration of the loop of correctOCRErrors: reads line[i], appends to
\* corrected.
correctIteration(line, l) ==
    [l EXCEPT !.corrected = Append(l.corrected, correctOCRChar(line[l.i + 1])),
              !.i = l.i + 1]

\* getROIRegion reading the regions from the process-wide data; the region
\* is returned by value.
getROIRegionFrom(tab, type, isBackSide) ==
    IF isBackSide
    THEN CASE type = "MRZ" -> tab.BackROI.MRZ
           [] OTHER -> tab.BackROI.MRZ
    ELSE CASE type = "TCKN" -> tab.FrontROI.TCKN
           [] type = "SURNAME" -> tab.FrontROI.SURNAME
           [] type = "NAME" -> tab.FrontROI.NAME
           [] type = "PHOTO" -> tab.FrontROI.PHOTO
           [] type = "SERIAL" -> tab.FrontROI.SERIAL
           [] type = "BIRTHDATE" -> tab.FrontROI.BIRTHDATE
           [] OTHER -> tab.FrontROI.TCKN

\* detectGlare on entry: Mat gray, not yet filled.
glareEntry == [gray |-> EmptyMat, filled |-> FALSE]

\* detectGlare up to the grayscale conversion: gray is a new matrix, src is
\* only read.
glareGray(src, l) == [l EXCEPT !.gray = toGray(src), !.filled = TRUE]

\* detectGlare from threshold to the returned ratio, on the local gray.
glareRatio(gray) ==
    LET bright == [gray EXCEPT !.data =
                      [i \in DOMAIN gray.data |->
                          <<thresholdBinary(gray.data[i][1], 240, 255)>>]]
    IN  [num |-> countNonZero(bright), den |-> gray.rows * gray.cols]

\* A frame before any call: the locals of each function as on entry.
EntryFrame ==
    [calculateChecksum |-> checksumEntry, correctOCRErrors |-> correctEntry,
     detectGlare |-> glareEntry]

\* A thread that is not in a call.
IdleThread == [pc |-> "idle", given |-> None, ret |-> None]

(***************************************************************************)
(* Arguments the caller draws                                              *)
(***************************************************************************)
\* '0' '7' '9' 'A' 'Z' '<' 'a' '*': digits, letters, the filler and two
\* characters outside the MRZ alphabet.
DataChars == {48, 55, 57, 65, 90, 60, 97, 42}

RECURSIVE SeqsUpTo(_, _)
SeqsUpTo(S, n) ==
    IF n = 0 THEN {<<>>}
    ELSE LET shorter == SeqsUpTo(S, n - 1)
         IN  shorter \cup {Append(s, c) : s \in {t \in shorter : Len(t) = n - 1}, c \in S}

\* "123456789"
Digits1to9 == <<49, 50, 51, 52, 53, 54, 55, 56, 57>>

DataStrings == SeqsUpTo(DataChars, MaxDataLen) \cup {Digits1to9}

\* Every digit, the characters next to the digits ('/' and ':'), the filler,
\* a letter and a byte above 127.
CheckChars == (48 .. 57) \cup {47, 58, 60, 65, 200}

\* "190909090": (odds * 7) - evens = 7 - 36 is negative.
Digits190909090 == <<49, 57, 48, 57, 48, 57, 48, 57, 48>>

\* "12345678950", the valid number of the documentation.
Tckn12345678950 == Digits1to9 \o <<53, 48>>

\* A 9-character prefix: one of the two bases with one character replaced by
\* '0', '1', '5', '9', 'A', '/', ':' or a byte above 127.
TcknPrefixChars == {48, 49, 53, 57, 65, 47, 58, 200}

TcknPrefixes ==
    {[base EXCEPT ![p] = c] :
        base \in {Digits1to9, Digits190909090}, p \in 1 .. 9, c \in TcknPrefixChars}

\* The 11-character strings, and strings of every other length 0..12 cut from
\* or extended beyond them.
TcknStrings ==
    {prefix \o <<c10, c11>> : prefix \in TcknPrefixes, c10 \in CheckChars, c11 \in CheckChars}
    \cup {SubSeq(Tckn12345678950, 1, n) : n \in 0 .. 10}
    \cup {Append(Tckn12345678950, c) : c \in CheckChars}

\* 'O' 'o' 'I' 'S' 'B' 'G' 'D' 'Q' 'Z' 'z' ' ' '.' 'A' '5' '<' '*'
OcrChars == {79, 111, 73, 83, 66, 71, 68, 81, 90, 122, 32, 46, 65, 53, 60, 42}

\* Every one-byte string, and every string over OcrChars up to MaxOcrLen.
OcrStrings == {<<c>> : c \in 0 .. 255} \cup SeqsUpTo(OcrChars, MaxOcrLen)

\* "I<TURA12C345672<12345678950<<<": document number A12C34567, check digit 2.
Line1Plain ==
    <<73, 60, 84, 85, 82, 65, 49, 50, 67, 51, 52, 53, 54, 55, 50, 60,
      49, 50, 51, 52, 53, 54, 55, 56, 57, 53, 48, 60, 60, 60>>

\* "I<TURS123456780<12345678950<<<": document number S12345678 with its
\* ICAO 9303 check digit 0 (S valued 28).
Line1LetterS ==
    <<73, 60, 84, 85, 82, 83, 49, 50, 51, 52, 53, 54, 55, 56, 48, 60,
      49, 50, 51, 52, 53, 54, 55, 56, 57, 53, 48, 60, 60, 60>>

\* "i<turAO1C234563<12345678950<<<": document number A01C23456 (check digit 3)
\* read with 'O' for '0' and a lower-case prefix.
Line1Misread ==
    <<105, 60, 116, 117, 114, 65, 79, 49, 67, 50, 51, 52, 53, 54, 51, 60,
      49, 50, 51, 52, 53, 54, 55, 56, 57, 53, 48, 60, 60, 60>>

\* "9001011M3001019TUR<<<<<<<<<<<8": birth 900101 (1), expiry 300101 (9);
\* the composite check digit is 8 with Line1Plain, 6 with document number
\* A01C23456 and 2 (ICAO) with Line1LetterS.
Line2Plain ==
    <<57, 48, 48, 49, 48, 49, 49, 77, 51, 48, 48, 49, 48, 49, 57, 84, 85, 82,
      60, 60, 60, 60, 60, 60, 60, 60, 60, 60, 60, 56>>

\* "DOE<<JOHN<<<<<<<<<<<<<<<<<<<<<"
Line3Plain ==
    <<68, 79, 69, 60, 60, 74, 79, 72, 78, 60, 60, 60, 60, 60, 60, 60, 60, 60,
      60, 60, 60, 60, 60, 60, 60, 60, 60, 60, 60, 60>>

\* The line with the character at 1-based position p replaced (p = 0: as is).
Edit(line, p, c) == IF p = 0 THEN line ELSE [line EXCEPT ![p] = c]

\* The line cut to n characters, or extended to n characters with '7'.
Fit(line, n) ==
    IF n <= Len(line) THEN SubSeq(line, 1, n)
    ELSE line \o [i \in 1 .. (n - Len(line)) |-> 55]

\* Raw line lengths: empty, around each index the checks read, and beyond 30.
LineLens == {0, 6, 7, 14, 15, 29, 30} \cup (31 .. MaxLineLen)

\* Lines of fillers only: 5 and 30 times '<', and 30 spaces, which the
\* correction turns into fillers.
FillerLines == {[i \in 1 .. 5 |-> 60], [i \in 1 .. 30 |-> 60], [i \in 1 .. 30 |-> 32]}

\* '7' '<' 'o': a digit, the filler and a letter the correction rewrites.
Line1EditChars == {55, 60, 111}

\* Line 1: a base with the first document-number character, the check digit
\* or an optional-data character replaced, each base at each length, and
\* the lines of fillers.
Line1Inputs ==
    LET bases == {Line1Plain, Line1LetterS, Line1Misread} IN
    {Edit(base, p, c) : base \in bases, p \in {0, 6, 15, 17}, c \in Line1EditChars}
    \cup {Fit(base, n) : base \in bases, n \in LineLens}
    \cup FillerLines

\* '8' '6' '2' '<'
Line2EditChars == {56, 54, 50, 60}

\* Line 2: the base with a birth-date character, one of the three check
\* digits or an optional-data character replaced, the base at each length,
\* and the lines of fillers.
Line2Inputs ==
    {Edit(Line2Plain, p, c) : p \in {0, 1, 7, 15, 20, 30}, c \in Line2EditChars}
    \cup {Fit(Line2Plain, n) : n \in LineLens}
    \cup FillerLines

Line3Inputs == {<<>>, Line3Plain} \cup FillerLines

Pt(x, y) == [x |-> x, y |-> y]

\* The axis-aligned rectangle with corner (x, y), w wide and h high.
Rect(x, y, w, h) == <<Pt(x, y), Pt(x + w, y), Pt(x + w, y + h), Pt(x, y + h)>>

CardQuad == Rect(1, 1, 8, 5)                               \* ratio 1.6
OtherQuad == <<Pt(2, 6), Pt(8, 6), Pt(8, 2), Pt(2, 2)>>    \* ratio 1.5
TallQuad == Rect(0, 0, 1, 5)                               \* ratio 0.2
WideQuad == Rect(0, 0, 5, 1)                               \* ratio 5.0
TooTallQuad == Rect(0, 0, 1, 6)                            \* ratio 1/6
TooWideQuad == Rect(0, 0, 6, 1)                            \* ratio 6
Rhombus == <<Pt(4, 0), Pt(8, 3), Pt(4, 6), Pt(0, 3)>>      \* sides 5, ratio 1
Triangle == <<Pt(0, 0), Pt(8, 0), Pt(4, 6)>>
DartQuad == <<Pt(0, 0), Pt(8, 0), Pt(4, 2), Pt(4, 6)>>     \* not convex

Contour(area, approx) == [area |-> area, approx |-> approx]

\* The contours a frame may hold.  On the 100-pixel frame the minimum area
\* is 5 and an area of 50 or more gives confidence 1; on the 200-pixel frame
\* the minimum area is 10.
ContourSamples ==
    {Contour(50, CardQuad), Contour(5, CardQuad),
     Contour(50, OtherQuad), Contour(4, OtherQuad),
     Contour(20, TallQuad), Contour(30, WideQuad),
     Contour(70, TooTallQuad), Contour(70, TooWideQuad),
     Contour(30, Rhombus), Contour(70, Triangle), Contour(70, DartQuad)}

\* Frames of 10 x 10 and 20 x 10 pixels with up to MaxContours contours, and
\* the empty frame.
Frames ==
    {[rows |-> size[1], cols |-> size[2], contours |-> contours] :
        size \in {<<10, 10>>, <<10, 20>>},
        contours \in SeqsUpTo(ContourSamples, MaxContours)}
    \cup {[rows |-> 0, cols |-> 0, contours |-> <<>>]}

\* Gray levels around the glare threshold.
GraySamples == {0, 239, 240, 241, 255}

\* BGR pixels of gray value 240, 241, 239 and 76, and a BGRA pixel of gray
\* value 240.
ColorPixels ==
    {<<255, 255, 205>>, <<255, 255, 209>>, <<255, 255, 200>>, <<0, 0, 255>>}

\* The shapes rows x cols of at most n pixels.
Shapes(n) == {s \in (1 .. n) \X (1 .. n) : s[1] * s[2] <= n}

\* The images detectGlare is called on: every gray image of at most
\* MaxPixels pixels over the sample levels, colour images of one or two
\* pixels, and the empty image.
GlareImages ==
    UNION {{[rows |-> s[1], cols |-> s[2], channels |-> 1, data |-> data] :
               data \in [1 .. s[1] * s[2] -> {<<v>> : v \in GraySamples}]} :
             s \in Shapes(MaxPixels)}
    \cup UNION {{[rows |-> 1, cols |-> n, channels |-> 3, data |-> data] :
                    data \in [1 .. n -> ColorPixels]} : n \in 1 .. 2}
    \cup {[rows |-> 1, cols |-> 1, channels |-> 4, data |-> <<<<255, 255, 205, 255>>>>]}
    \cup {EmptyMat}

Square == Rect(0, 0, 4, 4)

\* Left edge 6, right edge 3, top edge 4, bottom edge 5.
Trapezoid == <<Pt(0, 0), Pt(4, 0), Pt(4, 3), Pt(0, 6)>>

Pentagon == <<Pt(0, 0), Pt(4, 0), Pt(6, 3), Pt(4, 6), Pt(0, 6)>>

\* The corner lists warpToID1 is called with: landscape, portrait and square
\* quadrilaterals in several vertex orders, and lists of 0, 3 and 5 points.
CornerLists ==
    {CardQuad, OtherQuad, TallQuad, WideQuad, Rhombus, Square, Trapezoid,
     DartQuad, Triangle, Pentagon, <<>>,
     <<TallQuad[3], TallQuad[1], TallQuad[4], TallQuad[2]>>,
     <<Trapezoid[4], Trapezoid[3], Trapezoid[2], Trapezoid[1]>>}

\* The points of the grid 0..MaxCoord x 0..MaxCoord.
GridPoints == {Pt(x, y) : x \in 0 .. MaxCoord, y \in 0 .. MaxCoord}

\* The corner lists orderCorners is called with: every list of four grid
\* points, and lists of 0, 1, 3 and 5 points.
OrderInputs ==
    [1 .. 4 -> GridPoints]
    \cup {<<>>, <<Pt(1, 1)>>, Triangle, Pentagon}

\* An image of the given size that no step has touched yet.
Image(rows, cols, channels) ==
    [rows |-> rows, cols |-> cols, channels |-> channels, steps |-> <<>>]

\* The frames warpToID1 is called on.
WarpFrames == {Image(10, 10, 3), Image(10, 20, 4), Image(7, 9, 1), EmptyImage}

\* The cards binarizeForOCR and extractMRZRegion are called on: the two
\* canonical sizes, small and odd sizes, and the empty image.
CardImages ==
    {Image(s[1], s[2], ch) :
        s \in {<<540, 856>>, <<856, 540>>, <<1, 1>>, <<2, 5>>, <<3, 4>>,
               <<25, 10>>, <<100, 8>>, <<101, 8>>},
        ch \in {1, 3, 4}}
    \cup {EmptyImage}

\* The pixels of a camera frame of n pixels whose first `bright` pixels are
\* glare.
Scene(n, bright) ==
    [i \in 1 .. n |-> IF i <= bright THEN <<250, 250, 250>> ELSE <<90, 90, 90>>]

\* The camera frames processForOCR is called on: the frames of findCardCorners
\* with at most two contours, as BGR images without glare or with a quarter
\* of the pixels in glare.
CameraFrames ==
    {[rows |-> f.rows, cols |-> f.cols,
      channels |-> IF empty(f) THEN 0 ELSE 3,
      data |-> Scene(f.rows * f.cols, (f.rows * f.cols * q) \div 4),
      contours |-> f.contours] :
        f \in {g \in Frames : Len(g.contours) <= 2}, q \in {0, 1}}

\* The card of the given size whose pixels all differ: pixel k holds the
\* gray value 37 k mod 256, or the BGR values 37 k, 59 k and 83 k mod 256.
Card(rows, cols, channels) ==
    [rows |-> rows, cols |-> cols, channels |-> channels,
     data |-> [k \in 1 .. rows * cols |->
                 IF channels = 1 THEN <<(37 * k) % 256>>
                 ELSE <<(37 * k) % 256, (59 * k) % 256, (83 * k) % 256>>]]

\* The warped cards extractROI is called on: gray and BGR cards of every
\* size up to MaxCardDim x MaxCardDim, and the empty image.
Cards ==
    {Card(rows, cols, channels) :
        rows \in 1 .. MaxCardDim, cols \in 1 .. MaxCardDim, channels \in {1, 3}}
    \cup {EmptyMat}

\* A Java bitmap as the native side sees it: whether its info can be read,
\* its format, whether its pixels can be locked, and its pixels.
Bitmap(info, format, lock, mat) ==
    [info |-> info, format |-> format, lock |-> lock, mat |-> mat]

\* The bitmaps holding an image that bitmapToMat can read, and three that it
\* cannot read.
BitmapsOf(mats) ==
    {Bitmap(TRUE, "RGBA_8888", TRUE, mat) : mat \in mats}
    \cup {Bitmap(FALSE, "RGBA_8888", TRUE, EmptyMat),
          Bitmap(TRUE, "RGB_565", TRUE, EmptyMat),
          Bitmap(TRUE, "RGBA_8888", FALSE, EmptyMat)}

\* RGBA pixels of gray value 240 and 241 after the conversion to BGR, and a
\* red pixel.
RgbaPixels == {<<205, 255, 255, 255>>, <<209, 255, 255, 255>>, <<255, 0, 0, 255>>}

\* Bitmaps of one or two pixels.
SmallBitmaps ==
    BitmapsOf(UNION {{[rows |-> 1, cols |-> n, channels |-> 4, data |-> data] :
                        data \in [1 .. n -> RgbaPixels]} : n \in 1 .. 2})

\* Bitmaps of camera frames of 10 x 10 pixels with at most one contour.
FrameBitmaps ==
    BitmapsOf({[rows |-> 10, cols |-> 10, channels |-> 4,
                data |-> [i \in 1 .. 100 |->
                            IF i <= 25 THEN <<250, 250, 250, 255>>
                            ELSE <<90, 90, 90, 255>>],
                contours |-> contours] :
                  contours \in SeqsUpTo(ContourSamples, 1)})

\* The MRZ lines and the numbers handed over as Java strings.
JniLines ==
    {<<Line1Plain, Line2Plain, Line3Plain>>,
     <<Line1Misread, Line2Plain, Line3Plain>>,
     <<<<>>, <<>>, <<>>>>}

JniTckns == {Tckn12345678950, Digits1to9, <<>>}

\* The calls the threads make: checksums of "7", "A1" and "1234", corrections
\* of "O1" and "s", three region lookups, the glare of a gray, a colour and
\* an empty image.
ThreadCalls ==
    {[op |-> "calculateChecksum", data |-> data] :
        data \in {<<55>>, <<65, 49>>, <<49, 50, 51, 52>>}}
    \cup {[op |-> "correctOCRErrors", line |-> line] :
            line \in {<<79, 49>>, <<115>>}}
    \cup {[op |-> "getROIRegion", type |-> c[1], isBackSide |-> c[2]] :
            c \in {<<"TCKN", FALSE>>, <<"BIRTHDATE", FALSE>>, <<"MRZ", TRUE>>}}
    \cup {[op |-> "detectGlare", src |-> src] :
            src \in {[rows |-> 1, cols |-> 2, channels |-> 1,
                      data |-> <<<<255>>, <<0>>>>],
                     [rows |-> 1, cols |-> 1, channels |-> 3,
                      data |-> <<<<255, 255, 209>>>>],
                     EmptyMat}}

(***************************************************************************)
(* The caller                                                              *)
(***************************************************************************)
Init ==
    /\ pc = "idle"
    /\ args = None
    /\ ret = None
    /\ work = None
    /\ tables = InitialTables
    /\ heap = [t \in Threads |-> None]
    /\ threads = [t \in Threads |-> IdleThread]
    /\ frames = [f \in Threads |-> EntryFrame]

CallCalculateChecksum ==
    /\ pc = "idle"
    /\ \E data \in DataStrings :
         /\ args' = [op |-> "calculateChecksum", data |-> data]
         /\ ret' = [value |-> calculateChecksum(data)]
    /\ work' = None
    /\ pc' = "returned"
    /\ UNCHANGED concurrent

CallValidateCheckDigit ==
    /\ pc = "idle"
    /\ \E data \in DataStrings, checkDigit \in CheckChars :
         /\ args' = [op |-> "validateCheckDigit", data |-> data,
                     checkDigit |-> checkDigit]
         /\ ret' = [value |-> validateCheckDigit(data, checkDigit)]
    /\ work' = None
    /\ pc' = "returned"
    /\ UNCHANGED concurrent

CallValidateTCKN ==
    /\ pc = "idle"
    /\ \E tckn \in TcknStrings :
         /\ args' = [op |-> "validateTCKN", tckn |-> tckn]
         /\ ret' = [value |-> validateTCKN(tckn)]
    /\ work' = None
    /\ pc' = "returned"
    /\ UNCHANGED concurrent

CallCorrectOCRErrors ==
    /\ pc = "idle"
    /\ \E line \in OcrStrings :
         /\ args' = [op |-> "correctOCRErrors", line |-> line]
         /\ ret' = [value |-> correctOCRErrors(line)]
    /\ work' = None
    /\ pc' = "returned"
    /\ UNCHANGED concurrent

CallValidateWithScore ==
    /\ pc = "idle"
    /\ \E line1Raw \in Line1Inputs, line2Raw \in Line2Inputs, line3Raw \in Line3Inputs :
         /\ args' = [op |-> "validateWithScore", line1 |-> line1Raw,
                     line2 |-> line2Raw, line3 |-> line3Raw]
         /\ ret' = validateWithScore(line1Raw, line2Raw, line3Raw)
         /\ work' = validateWithScoreLocals(line1Raw, line2Raw, line3Raw)
    /\ pc' = "returned"
    /\ UNCHANGED concurrent

CallFindCardCorners ==
    /\ pc = "idle"
    /\ \E src \in Frames :
         /\ args' = [op |-> "findCardCorners", src |-> src]
         /\ ret' \in findCardCorners(src)
    /\ work' = None
    /\ pc' = "returned"
    /\ UNCHANGED concurrent

CallOrderCorners ==
    /\ pc = "idle"
    /\ \E corners \in OrderInputs :
         /\ args' = [op |-> "orderCorners", corners |-> corners]
         /\ \E ordered \in orderCorners(corners) : ret' = [value |-> ordered]
    /\ work' = None
    /\ pc' = "returned"
    /\ UNCHANGED concurrent

CallDetectGlare ==
    /\ pc = "idle"
    /\ \E src \in GlareImages :
         /\ args' = [op |-> "detectGlare", src |-> src]
         /\ ret' = detectGlare(src)
    /\ work' = None
    /\ pc' = "returned"
    /\ UNCHANGED concurrent

CallWarpToID1 ==
    /\ pc = "idle"
    /\ \E src \in WarpFrames, corners \in CornerLists :
         /\ args' = [op |-> "warpToID1", src |-> src, corners |-> corners]
         /\ ret' \in warpToID1(src, corners)
    /\ work' = None
    /\ pc' = "returned"
    /\ UNCHANGED concurrent

CallBinarizeForOCR ==
    /\ pc = "idle"
    /\ \E src \in CardImages :
         /\ args' = [op |-> "binarizeForOCR", src |-> src]
         /\ ret' = binarizeForOCR(src)
    /\ work' = None
    /\ pc' = "returned"
    /\ UNCHANGED concurrent

CallExtractMRZRegion ==
    /\ pc = "idle"
    /\ \E src \in CardImages :
         /\ args' = [op |-> "extractMRZRegion", src |-> src]
         /\ ret' = extractMRZRegion(src)
    /\ work' = None
    /\ pc' = "returned"
    /\ UNCHANGED concurrent

CallProcessForOCR ==
    /\ pc = "idle"
    /\ \E inputRGB \in CameraFrames :
         /\ args' = [op |-> "processForOCR", inputRGB |-> inputRGB]
         /\ ret' \in processForOCR(inputRGB)
    /\ work' = None
    /\ pc' = "returned"
    /\ UNCHANGED concurrent

CallGetROIRegion ==
    /\ pc = "idle"
    /\ \E type \in ROITypeValues, isBackSide \in BOOLEAN :
         /\ args' = [op |-> "getROIRegion", type |-> type, isBackSide |-> isBackSide]
         /\ ret' = getROIRegion(type, isBackSide)
    /\ work' = None
    /\ pc' = "returned"
    /\ UNCHANGED concurrent

CallExtractROI ==
    /\ pc = "idle"
    /\ \E warpedCard \in Cards, type \in ROITypeValues, isBackSide \in BOOLEAN :
         /\ args' = [op |-> "extractROI", warpedCard |-> warpedCard,
                     type |-> type, isBackSide |-> isBackSide]
         /\ ret' \in extractROI(warpedCard, type, isBackSide)
         /\ work' = extractROILocals(warpedCard, type, isBackSide)
    /\ pc' = "returned"
    /\ UNCHANGED concurrent

JniProcessImageForOCR ==
    /\ pc = "idle"
    /\ \E bitmap \in FrameBitmaps, throws \in BOOLEAN, created \in BOOLEAN :
         /\ args' = [op |-> "NativeProcessor.processImageForOCR", bitmap |-> bitmap,
                     throws |-> throws, created |-> created]
         /\ ret' \in jniProcessImageForOCR(bitmap, throws, created)
    /\ work' = None
    /\ pc' = "returned"
    /\ UNCHANGED concurrent

JniExtractMRZRegion ==
    /\ pc = "idle"
    /\ \E bitmap \in FrameBitmaps, throws \in BOOLEAN, created \in BOOLEAN :
         /\ args' = [op |-> "NativeProcessor.extractMRZRegion", bitmap |-> bitmap,
                     throws |-> throws, created |-> created]
         /\ ret' \in jniExtractMRZRegion(bitmap, throws, created)
    /\ work' = None
    /\ pc' = "returned"
    /\ UNCHANGED concurrent

JniValidateMRZWithScore ==
    /\ pc = "idle"
    /\ \E lines \in JniLines, chars \in BOOLEAN, throws \in BOOLEAN :
         /\ args' = [op |-> "NativeProcessor.validateMRZWithScore", line1 |-> lines[1],
                     line2 |-> lines[2], line3 |-> lines[3],
                     chars |-> chars, throws |-> throws]
         /\ ret' \in jniValidateMRZWithScore(lines[1], lines[2], lines[3], chars, throws)
    /\ work' = None
    /\ pc' = "returned"
    /\ UNCHANGED concurrent

JniDetectGlare ==
    /\ pc = "idle"
    /\ \E bitmap \in SmallBitmaps, throws \in BOOLEAN :
         /\ args' = [op |-> "NativeProcessor.detectGlare", bitmap |-> bitmap,
                     throws |-> throws]
         /\ ret' \in jniDetectGlare(bitmap, throws)
    /\ work' = None
    /\ pc' = "returned"
    /\ UNCHANGED concurrent

JniValidateTCKNNative ==
    /\ pc = "idle"
    /\ \E tckn \in JniTckns, chars \in BOOLEAN, throws \in BOOLEAN :
         /\ args' = [op |-> "NativeProcessor.validateTCKNNative", tckn |-> tckn,
                     chars |-> chars, throws |-> throws]
         /\ ret' \in jniValidateTCKNNative(tckn, chars, throws)
    /\ work' = None
    /\ pc' = "returned"
    /\ UNCHANGED concurrent

JniGetCardConfidence ==
    /\ pc = "idle"
    /\ \E bitmap \in FrameBitmaps, throws \in BOOLEAN :
         /\ args' = [op |-> "NativeProcessor.getCardConfidence", bitmap |-> bitmap,
                     throws |-> throws]
         /\ ret' \in jniGetCardConfidence(bitmap, throws)
    /\ work' = None
    /\ pc' = "returned"
    /\ UNCHANGED concurrent

JniExtractROI ==
    /\ pc = "idle"
    /\ \E bitmap \in SmallBitmaps, roiType \in ROITypeValues, isBackSide \in BOOLEAN,
          throws \in BOOLEAN, created \in BOOLEAN :
         /\ args' = [op |-> "NativeProcessor.extractROI", bitmap |-> bitmap,
                     roiType |-> roiType, isBackSide |-> isBackSide,
                     throws |-> throws, created |-> created]
         /\ ret' \in jniExtractROI(bitmap, roiType, isBackSide, throws, created)
    /\ work' = None
    /\ pc' = "returned"
    /\ UNCHANGED concurrent

JniCalculateBlurScore ==
    /\ pc = "idle"
    /\ \E bitmap \in SmallBitmaps, throws \in BOOLEAN :
         /\ args' = [op |-> "NativeProcessor.calculateBlurScore", bitmap |-> bitmap,
                     throws |-> throws]
         /\ ret' \in jniCalculateBlurScore(bitmap, throws)
    /\ work' = None
    /\ pc' = "returned"
    /\ UNCHANGED concurrent

JniCalculateStability ==
    /\ pc = "idle"
    /\ \E currentBitmap \in SmallBitmaps, previousBitmap \in SmallBitmaps,
          throws \in BOOLEAN :
         /\ args' = [op |-> "NativeProcessor.calculateStability",
                     bitmap |-> currentBitmap, previousBitmap |-> previousBitmap,
                     throws |-> throws]
         /\ ret' \in jniCalculateStability(currentBitmap, previousBitmap, throws)
    /\ work' = None
    /\ pc' = "returned"
    /\ UNCHANGED concurrent

JniWarpToID1 ==
    /\ pc = "idle"
    /\ \E bitmap \in FrameBitmaps, throws \in BOOLEAN, created \in BOOLEAN :
         /\ args' = [op |-> "NativeProcessor.warpToID1", bitmap |-> bitmap,
                     throws |-> throws, created |-> created]
         /\ ret' \in jniWarpToID1(bitmap, throws, created)
    /\ work' = None
    /\ pc' = "returned"
    /\ UNCHANGED concurrent

\* The call returns; the library keeps nothing between calls.
Return ==
    /\ pc = "returned"
    /\ pc' = "idle"
    /\ args' = None
    /\ ret' = None
    /\ work' = None
    /\ UNCHANGED concurrent

\* A thread calls an operation: the input buffer is its own, the locals of
\* the function are initialised in the frame of the call.
ThreadCall ==
    \E t \in Threads, call \in ThreadCalls :
        /\ threads[t].pc = "idle"
        /\ heap' = [heap EXCEPT ![t] = call]
        /\ threads' = [threads EXCEPT ![t] = [pc |-> call.op, given |-> call,
                                              ret |-> None]]
        /\ frames' = IF call.op \in DOMAIN EntryFrame
                     THEN [frames EXCEPT ![frameOf(t)][call.op] = EntryFrame[call.op]]
                     ELSE frames
        /\ UNCHANGED <<tables, caller>>

\* One iteration of the loop of calculateChecksum.
ThreadChecksumStep ==
    \E t \in Threads :
        LET l == frames[frameOf(t)].calculateChecksum IN
        /\ threads[t].pc = "calculateChecksum"
        /\ l.i < Len(heap[t].data)
        /\ frames' = [frames EXCEPT ![frameOf(t)].calculateChecksum =
                         checksumIteration(tables, heap[t].data, l)]
        /\ UNCHANGED <<tables, heap, threads, caller>>

\* return sum % 10; the locals end with the call.
ThreadChecksumReturn ==
    \E t \in Threads :
        LET l == frames[frameOf(t)].calculateChecksum IN
        /\ threads[t].pc = "calculateChecksum"
        /\ l.i >= Len(heap[t].data)
        /\ threads' = [threads EXCEPT ![t].pc = "returned",
                                      ![t].ret = [value |-> CRem(l.sum, 10)]]
        /\ frames' = [frames EXCEPT ![frameOf(t)].calculateChecksum = EntryFrame.calculateChecksum]
        /\ UNCHANGED <<tables, heap, caller>>

\* One iteration of the loop of correctOCRErrors.
ThreadCorrectStep ==
    \E t \in Threads :
        LET l == frames[frameOf(t)].correctOCRErrors IN
        /\ threads[t].pc = "correctOCRErrors"
        /\ l.i < Len(heap[t].line)
        /\ frames' = [frames EXCEPT ![frameOf(t)].correctOCRErrors =
                         correctIteration(heap[t].line, l)]
        /\ UNCHANGED <<tables, heap, threads, caller>>

\* return corrected; the locals end with the call.
ThreadCorrectReturn ==
    \E t \in Threads :
        LET l == frames[frameOf(t)].correctOCRErrors IN
        /\ threads[t].pc = "correctOCRErrors"
        /\ l.i >= Len(heap[t].line)
        /\ threads' = [threads EXCEPT ![t].pc = "returned",
                                      ![t].ret = [value |-> l.corrected]]
        /\ frames' = [frames EXCEPT ![frameOf(t)].correctOCRErrors = EntryFrame.correctOCRErrors]
        /\ UNCHANGED <<tables, heap, caller>>

\* getROIRegion: one read of the region table.
ThreadGetROIRegion ==
    \E t \in Threads :
        /\ threads[t].pc = "getROIRegion"
        /\ threads' = [threads EXCEPT ![t].pc = "returned",
                          ![t].ret = [value |-> getROIRegionFrom(tables, heap[t].type,
                                                                 heap[t].isBackSide)]]
        /\ UNCHANGED <<tables, heap, frames, caller>>

\* detectGlare on a non-empty image, up to the grayscale conversion.
ThreadGlareGray ==
    \E t \in Threads :
        LET l == frames[frameOf(t)].detectGlare IN
        /\ threads[t].pc = "detectGlare"
        /\ ~empty(heap[t].src)
        /\ ~l.filled
        /\ frames' = [frames EXCEPT ![frameOf(t)].detectGlare = glareGray(heap[t].src, l)]
        /\ UNCHANGED <<tables, heap, threads, caller>>

\* detectGlare returns 1.0f for an empty image, else the ratio of the bright
\* pixels of gray; the locals end with the call.
ThreadGlareReturn ==
    \E t \in Threads :
        LET l == frames[frameOf(t)].detectGlare IN
        /\ threads[t].pc = "detectGlare"
        /\ empty(heap[t].src) \/ l.filled
        /\ threads' = [threads EXCEPT ![t].pc = "returned",
                          ![t].ret = [value |-> IF empty(heap[t].src)
                                                THEN [num |-> 1, den |-> 1]
                                                ELSE glareRatio(l.gray)]]
        /\ frames' = [frames EXCEPT ![frameOf(t)].detectGlare = EntryFrame.detectGlare]
        /\ UNCHANGED <<tables, heap, caller>>

\* The caller has the result; the buffer is its own again.
ThreadReturn ==
    \E t \in Threads :
        /\ threads[t].pc = "returned"
        /\ threads' = [threads EXCEPT ![t] = IdleThread]
        /\ heap' = [heap EXCEPT ![t] = None]
        /\ UNCHANGED <<tables, frames, caller>>

NextChecksum == CallCalculateChecksum \/ CallValidateCheckDigit \/ Return

SpecChecksum == Init /\ [][NextChecksum]_vars

NextTCKN == CallValidateTCKN \/ Return

SpecTCKN == Init /\ [][NextTCKN]_vars

NextMRZ == CallCorrectOCRErrors \/ CallValidateWithScore \/ Return

SpecMRZ == Init /\ [][NextMRZ]_vars

NextCorners == CallFindCardCorners \/ Return

SpecCorners == Init /\ [][NextCorners]_vars

NextOrder == CallOrderCorners \/ Return

SpecOrder == Init /\ [][NextOrder]_vars

NextGlare == CallDetectGlare \/ Return

SpecGlare == Init /\ [][NextGlare]_vars

NextPipeline ==
    \/ CallWarpToID1
    \/ CallBinarizeForOCR
    \/ CallExtractMRZRegion
    \/ CallProcessForOCR
    \/ Return

SpecPipeline == Init /\ [][NextPipeline]_vars

NextROI == CallGetROIRegion \/ CallExtractROI \/ Return

SpecROI == Init /\ [][NextROI]_vars

NextJNI ==
    \/ JniProcessImageForOCR
    \/ JniExtractMRZRegion
    \/ JniValidateMRZWithScore
    \/ JniDetectGlare
    \/ JniValidateTCKNNative
    \/ JniGetCardConfidence
    \/ JniExtractROI
    \/ JniCalculateBlurScore
    \/ JniCalculateStability
    \/ JniWarpToID1
    \/ Return

SpecJNI == Init /\ [][NextJNI]_vars

NextThreads ==
    \/ ThreadCall
    \/ ThreadChecksumStep
    \/ ThreadChecksumReturn
    \/ ThreadCorrectStep
    \/ ThreadCorrectReturn
    \/ ThreadGetROIRegion
    \/ ThreadGlareGray
    \/ ThreadGlareReturn
    \/ ThreadReturn

SpecThreads == Init /\ [][NextThreads]_vars

Next ==
    \/ CallCalculateChecksum
    \/ CallValidateCheckDigit
    \/ CallValidateTCKN
    \/ CallCorrectOCRErrors
    \/ CallValidateWithScore
    \/ CallFindCardCorners
    \/ CallOrderCorners
    \/ CallDetectGlare
    \/ CallWarpToID1
    \/ CallBinarizeForOCR
    \/ CallExtractMRZRegion
    \/ CallProcessForOCR
    \/ CallGetROIRegion
    \/ CallExtractROI
    \/ JniProcessImageForOCR
    \/ JniExtractMRZRegion
    \/ JniValidateMRZWithScore
    \/ JniDetectGlare
    \/ JniValidateTCKNNative
    \/ JniGetCardConfidence
    \/ JniExtractROI
    \/ JniCalculateBlurScore
    \/ JniCalculateStability
    \/ JniWarpToID1
    \/ Return
    \/ ThreadCall
    \/ ThreadChecksumStep
    \/ ThreadChecksumReturn
    \/ ThreadCorrectStep
    \/ ThreadCorrectReturn
    \/ ThreadGetROIRegion
    \/ ThreadGlareGray
    \/ ThreadGlareReturn
    \/ ThreadReturn

Spec == Init /\ [][Next]_vars

(***************************************************************************)
(* Claims                                                                  *)
(***************************************************************************)
Returned(op) == pc = "returned" /\ args.op = op

\* The character value the checksum is specified over.
SpecValue(c) ==
    CASE c \in 48 .. 57 -> c - 48
      [] c \in 65 .. 90 -> 10 + (c - 65)
      [] OTHER -> 0

\* Sum over the first n characters of value(data[i]) * W[i mod 3], W = [7,3,1].
RECURSIVE SpecWeightedSum(_, _)
SpecWeightedSum(data, n) ==
    IF n = 0 THEN 0
    ELSE SpecWeightedSum(data, n - 1)
         + SpecValue(data[n]) * (CASE (n - 1) % 3 = 0 -> 7
                                   [] (n - 1) % 3 = 1 -> 3
                                   [] OTHER -> 1)

\* C1: calculateChecksum(data) is the 7-3-1 weighted sum of the character
\* values (digits as is, letters 10 + offset, anything else 0) modulo 10; it
\* lies in 0..9, and calculateChecksum("123456789") = 7.
C1_ChecksumIsWeightedSumMod10 ==
    Returned("calculateChecksum") =>
        /\ ret.value = SpecWeightedSum(args.data, Len(args.data)) % 10
        /\ ret.value \in 0 .. 9
        /\ (args.data = Digits1to9 => ret.value = 7)

C1_Witness ==
    /\ Returned("calculateChecksum")
    /\ args.data = Digits1to9
    /\ ret.value = 7

\* C2: validateCheckDigit(data, c) is true exactly when c is an ASCII digit
\* whose value is calculateChecksum(data); on "123456789" only '7' is
\* accepted; a character that is no digit is never accepted.
C2_CheckDigitIffDigitEqualsChecksum ==
    Returned("validateCheckDigit") =>
        LET c == args.checkDigit IN
        /\ ret.value <=> (c \in 48 .. 57 /\ c - 48 = calculateChecksum(args.data))
        /\ (args.data = Digits1to9 => (ret.value <=> c = 55))
        /\ (c \notin 48 .. 57 => ~ret.value)

\* The checksum of the data is 0 and the check character is the filler.
C2_Witness ==
    /\ Returned("validateCheckDigit")
    /\ calculateChecksum(args.data) = 0
    /\ args.checkDigit = 60
    /\ ret.value = FALSE

\* The digit value of the character at 1-based position k.
DigitAt(s, k) == s[k] - 48

\* The acceptance condition of a TCKN as specified.
SpecTCKNValid(s) ==
    /\ Len(s) = 11
    /\ s[1] # 48
    /\ \A k \in 1 .. 9 : s[k] \in 48 .. 57
    /\ LET oddSum  == DigitAt(s, 1) + DigitAt(s, 3) + DigitAt(s, 5)
                      + DigitAt(s, 7) + DigitAt(s, 9)
           evenSum == DigitAt(s, 2) + DigitAt(s, 4) + DigitAt(s, 6) + DigitAt(s, 8)
       IN  /\ s[10] = 48 + ((oddSum * 7 - evenSum) % 10)
           /\ s[11] = 48 + ((oddSum + evenSum + DigitAt(s, 10)) % 10)

\* C3: validateTCKN(s) is true exactly when s has 11 characters, does not
\* start with '0', its first 9 characters are digits, the 10th is
\* ((d1+d3+d5+d7+d9)*7 - (d2+d4+d6+d8)) mod 10 in 0..9 and the 11th is the sum
\* of the first 10 digits mod 10.
C3_TCKNAcceptedIffSpecified ==
    Returned("validateTCKN") => (ret.value <=> SpecTCKNValid(args.tckn))

\* An accepted number whose 10th digit comes from a negative difference.
C3_Witness ==
    /\ Returned("validateTCKN")
    /\ args.tckn = Digits190909090 \o <<49, 56>>
    /\ ret.value = TRUE

\* C4: validateTCKN("12345678950") is true, and an accepted string with its
\* 11th character replaced by any other character is rejected.
C4_TCKNLastCharacterUnique ==
    Returned("validateTCKN") =>
        /\ (args.tckn = Tckn12345678950 => ret.value)
        /\ (ret.value =>
              \A c \in (0 .. 255) \ {args.tckn[11]} :
                  ~validateTCKN([args.tckn EXCEPT ![11] = c]))

C4_Witness ==
    /\ Returned("validateTCKN")
    /\ args.tckn = Tckn12345678950
    /\ ret.value = TRUE

\* A line as the specification pads it: extended with '<' to 30 characters,
\* never shortened.
SpecPad(s) == IF Len(s) < 30 THEN s \o [i \in 1 .. (30 - Len(s)) |-> 60] ELSE s

\* The four flags computed on the text L1, L2 (C++ slices [a:b) are the
\* 1-based positions a+1..b).
SpecFlags(L1, L2) ==
    [docNumValid    |-> validateCheckDigit(SubSeq(L1, 6, 14), L1[15]),
     dobValid       |-> validateCheckDigit(SubSeq(L2, 1, 6), L2[7]),
     expiryValid    |-> validateCheckDigit(SubSeq(L2, 9, 14), L2[15]),
     compositeValid |->
        LET data == SubSeq(L1, 6, 30) \o SubSeq(L2, 1, 7)
                    \o SubSeq(L2, 9, 15) \o SubSeq(L2, 19, 29)
        IN  Len(data) = 50 /\ validateCheckDigit(data, L2[30])]

Flags(score) ==
    [docNumValid |-> score.docNumValid, dobValid |-> score.dobValid,
     expiryValid |-> score.expiryValid, compositeValid |-> score.compositeValid]

\* C5: the four flags of validateWithScore are validateCheckDigit on
\* L1[5:14) vs L1[14], L2[0:6) vs L2[6], L2[8:14) vs L2[14] and the
\* 50-character composite vs L2[29], with L1, L2 the corrected and padded
\* lines, not the raw ones.
C5_FlagsAreChecksOnCorrectedText ==
    Returned("validateWithScore") =>
        Flags(ret) = SpecFlags(SpecPad(correctOCRErrors(args.line1)),
                               SpecPad(correctOCRErrors(args.line2)))

\* A document number that is valid as corrected and invalid as read.
C5_Witness ==
    /\ Returned("validateWithScore")
    /\ Len(args.line1) = 30
    /\ ret.docNumValid
    /\ ~validateCheckDigit(SubSeq(args.line1, 6, 14), args.line1[15])

Points(flag) == IF flag THEN 15 ELSE 0

\* C6: each of the four scores is 15 when its flag is true and 0 otherwise,
\* and totalScore is their sum: one of 0, 15, 30, 45, 60, 15 per true flag.
C6_ScoresFollowFlags ==
    Returned("validateWithScore") =>
        /\ ret.docNumScore = Points(ret.docNumValid)
        /\ ret.dobScore = Points(ret.dobValid)
        /\ ret.expiryScore = Points(ret.expiryValid)
        /\ ret.compositeScore = Points(ret.compositeValid)
        /\ ret.totalScore = ret.docNumScore + ret.dobScore
                            + ret.expiryScore + ret.compositeScore
        /\ ret.totalScore \in {0, 15, 30, 45, 60}
        /\ ret.totalScore =
              15 * Cardinality({f \in DOMAIN Flags(ret) : Flags(ret)[f]})

C6_Witness ==
    /\ Returned("validateWithScore")
    /\ ret.docNumValid /\ ret.dobValid /\ ret.expiryValid /\ ret.compositeValid
    /\ ret.totalScore = 60

\* The characters of the MRZ alphabet [A-Z0-9<].
MrzAlphabet == (65 .. 90) \cup (48 .. 57) \cup {60}

\* The ICAO 9303 check: the check character is the digit equal to the
\* 7-3-1 weighted sum of the data's character values modulo 10.
IcaoCheckOK(data, c) ==
    c \in 48 .. 57 /\ c - 48 = SpecWeightedSum(data, Len(data)) % 10

\* C7: on three 30-character lines over [A-Z0-9<], a field earns 15 points
\* exactly when its ICAO 9303 check digit, computed over the characters of
\* the given lines, is correct.
C7_IcaoValidFieldEarns15 ==
    (/\ Returned("validateWithScore")
     /\ \A line \in {args.line1, args.line2, args.line3} :
           Len(line) = 30 /\ \A i \in 1 .. 30 : line[i] \in MrzAlphabet)
    => LET L1 == args.line1
           L2 == args.line2
       IN  /\ ret.docNumScore = 15 <=> IcaoCheckOK(SubSeq(L1, 6, 14), L1[15])
           /\ ret.dobScore = 15 <=> IcaoCheckOK(SubSeq(L2, 1, 6), L2[7])
           /\ ret.expiryScore = 15 <=> IcaoCheckOK(SubSeq(L2, 9, 14), L2[15])
           /\ ret.compositeScore = 15 <=>
                 IcaoCheckOK(SubSeq(L1, 6, 30) \o SubSeq(L2, 1, 7)
                             \o SubSeq(L2, 9, 15) \o SubSeq(L2, 19, 29), L2[30])

\* The substitutions of the correction, by upper-case character.
SpecSubstitution ==
    (79 :> 48) @@ (73 :> 49) @@ (83 :> 53) @@ (66 :> 56) @@ (71 :> 54)
    @@ (68 :> 48) @@ (81 :> 48) @@ (90 :> 50) @@ (32 :> 60) @@ (46 :> 60)

SpecCorrected(c) ==
    LET u == IF c \in 97 .. 122 THEN c - 32 ELSE c
    IN  IF u \in DOMAIN SpecSubstitution THEN SpecSubstitution[u]
        ELSE IF u \in MrzAlphabet THEN u
        ELSE 60

\* C8: correctOCRErrors maps every character, after uppercasing, by
\* O->0, I->1, S->5, B->8, G->6, D->0, Q->0, Z->2, space-><, '.'-><, keeps
\* any other character of [A-Z0-9<] and turns the rest into '<', each
\* character by itself whatever its position and neighbours.
C8_CorrectionIsCharacterwise ==
    Returned("correctOCRErrors") =>
        /\ Len(ret.value) = Len(args.line)
        /\ \A i \in 1 .. Len(args.line) : ret.value[i] = SpecCorrected(args.line[i])

\* "o." becomes "0<".
C8_Witness ==
    /\ Returned("correctOCRErrors")
    /\ args.line = <<111, 46>>
    /\ ret.value = <<48, 60>>

RawLines == <<args.line1, args.line2, args.line3>>
WorkLines == <<work.line1, work.line2, work.line3>>
CorrectedLines == <<ret.correctedLine1, ret.correctedLine2, ret.correctedLine3>>

\* C9 as claimed: the working copy of a corrected line shorter than 30 is
\* the line extended with '<' to 30, and the working copy of a longer
\* corrected line keeps all its characters.
C9_PadsNeverTruncates ==
    Returned("validateWithScore") =>
        \A k \in 1 .. 3 : WorkLines[k] = SpecPad(correctOCRErrors(RawLines[k]))

\* C9 as amended: every working copy has exactly 30 characters, the first
\* 30 of the corrected line, extended with '<' when the line is shorter;
\* only correctedLine1/2/3 keep the corrected line at its full length.
C9_WorkingCopyIsExactly30 ==
    Returned("validateWithScore") =>
        \A k \in 1 .. 3 :
            LET corrected == correctOCRErrors(RawLines[k]) IN
            /\ Len(WorkLines[k]) = 30
            /\ \A i \in 1 .. 30 :
                  WorkLines[k][i] = IF i <= Len(corrected) THEN corrected[i] ELSE 60
            /\ CorrectedLines[k] = corrected

\* A line 1 longer than 30 characters and one shorter.
C9_Witness ==
    /\ Returned("validateWithScore")
    /\ Len(args.line1) > 30
    /\ Len(ret.correctedLine1) > 30
    /\ Len(work.line1) = 30
    /\ Len(args.line2) < 30
    /\ Len(work.line2) = 30

\* Contour i of the frame passes every filter of findCardCorners.
Passes(src, i) ==
    LET contour == src.contours[i] IN
    /\ contour.area * 100 >= 5 * (src.rows * src.cols)
    /\ Len(contour.approx) = 4
    /\ isContourConvex(contour.approx)
    /\ \E r \in calculateAspectRatio(contour.approx) :
          r.num * 5 >= r.den /\ r.num <= 5 * r.den

\* Among the contours P, the one of largest area, the earliest among equals.
IsWinner(src, P, i) ==
    /\ i \in P
    /\ \A j \in P :
          /\ src.contours[j].area <= src.contours[i].area
          /\ (j < i => src.contours[j].area < src.contours[i].area)

\* C10: findCardCorners returns detected = true exactly when some contour
\* passes all filters (area >= 5% of the frame, 4 vertices, convex, aspect
\* ratio in [0.2, 5.0]), and the corners are then those of the passing
\* contour of largest area, the earliest in extraction order among equals.
C10_LargestPassingContourEarliestOnTies ==
    Returned("findCardCorners") =>
        LET src == args.src
            P   == {i \in 1 .. Len(src.contours) : Passes(src, i)}
        IN  /\ ret.detected <=> P # {}
            /\ ret.detected =>
                  \E i \in P : IsWinner(src, P, i) /\ ret.corners = src.contours[i].approx

\* Two passing contours of the same largest area with different corners: the
\* first one is returned.
C10_Witness ==
    /\ Returned("findCardCorners")
    /\ args.src.rows = 10 /\ args.src.cols = 10
    /\ args.src.contours =
          <<Contour(20, TallQuad), Contour(50, OtherQuad), Contour(50, CardQuad)>>
    /\ ret.detected
    /\ ret.corners = OtherQuad

\* Rationals [num, den] with den > 0.
RatLeq(a, b) == a.num * b.den <= b.num * a.den

RatEq(a, b) == a.num * b.den = b.num * a.den

Rat(n, d) == [num |-> n, den |-> d]

\* c is the smaller of 1 and n / d.
IsMinOfOneAnd(c, n, d) ==
    /\ RatLeq(c, Rat(1, 1))
    /\ RatLeq(c, Rat(n, d))
    /\ RatEq(c, Rat(1, 1)) \/ RatEq(c, Rat(n, d))

\* The frame of the same size as src that holds the one contour c.
FrameOfOne(src, c) == [rows |-> src.rows, cols |-> src.cols, contours |-> <<c>>]

\* C11: when findCardCorners detects a card, the confidence is
\* min(1.0, bestArea / (0.5 * frameArea)) for the area of the returned
\* candidate (the winning contour, not another one); it lies in [0, 1], is
\* exactly 1 once the candidate covers at least half of the frame, and on a
\* frame of the same size a candidate of smaller or equal area never earns a
\* larger confidence.
C11_ConfidenceIsCoverageOfReturnedCandidate ==
    (Returned("findCardCorners") /\ ret.detected) =>
        LET src   == args.src
            frame == src.rows * src.cols
            P     == {i \in 1 .. Len(src.contours) : Passes(src, i)}
        IN  \E i \in P :
               LET bestArea == src.contours[i].area IN
               /\ IsWinner(src, P, i)
               /\ ret.corners = src.contours[i].approx
               /\ IsMinOfOneAnd(ret.confidence, 2 * bestArea, frame)
               /\ RatLeq(Rat(0, 1), ret.confidence)
               /\ RatLeq(ret.confidence, Rat(1, 1))
               /\ (2 * bestArea >= frame => RatEq(ret.confidence, Rat(1, 1)))
               /\ \A c \in ContourSamples :
                     c.area <= bestArea =>
                        \A r \in findCardCorners(FrameOfOne(src, c)) :
                           r.detected => RatLeq(r.confidence, ret.confidence)

\* On the 200-pixel frame a smaller passing contour comes first and the
\* 50-pixel card is returned: the confidence is 50 / 100, not 30 / 100.
C11_Witness ==
    /\ Returned("findCardCorners")
    /\ args.src.rows = 10 /\ args.src.cols = 20
    /\ args.src.contours = <<Contour(30, WideQuad), Contour(50, CardQuad)>>
    /\ ret.detected
    /\ ret.corners = CardQuad
    /\ ret.confidence = Rat(100, 200)

\* C12: findCardCorners fails softly: on an empty frame, a frame without
\* contours or a frame in which no contour passes the filters it returns a
\* CornerResult with detected = false, confidence exactly 0 and no corners;
\* detected = false always comes with confidence 0.
C12_UndetectedHasZeroConfidence ==
    Returned("findCardCorners") =>
        LET src == args.src
            P   == {i \in 1 .. Len(src.contours) : Passes(src, i)}
        IN  /\ DOMAIN ret = {"detected", "confidence", "corners"}
            /\ (empty(src) \/ src.contours = <<>> \/ P = {}) => ~ret.detected
            /\ ~ret.detected =>
                  /\ ret.confidence.num = 0
                  /\ ret.corners = <<>>

\* A frame whose only large contours fail the aspect-ratio filter.
C12_Witness ==
    /\ Returned("findCardCorners")
    /\ args.src.rows = 10 /\ args.src.cols = 10
    /\ args.src.contours = <<Contour(70, TooTallQuad), Contour(70, TooWideQuad)>>
    /\ ~ret.detected
    /\ ret.confidence = Rat(0, 1)
    /\ ret.corners = <<>>

\* C13: whenever processForOCR returns cardDetected = false (empty input, no
\* card detected, or a failed warp), the normalized, binarized and mrzRegion
\* images are empty, cardWidth and cardHeight are 0 and
\* perspectiveConfidence is 0.
C13_UndetectedFrameIsBlank ==
    (Returned("processForOCR") /\ ~ret.cardDetected) =>
        /\ empty(ret.normalized)
        /\ empty(ret.binarized)
        /\ empty(ret.mrzRegion)
        /\ ret.cardWidth = 0
        /\ ret.cardHeight = 0
        /\ ret.perspectiveConfidence.num = 0

\* A frame with pixels and contours, none of which passes the filters.
C13_Witness ==
    /\ Returned("processForOCR")
    /\ args.inputRGB.rows = 10 /\ args.inputRGB.cols = 10
    /\ args.inputRGB.contours = <<Contour(70, Triangle), Contour(4, OtherQuad)>>
    /\ ~ret.cardDetected
    /\ ret.perspectiveConfidence = Rat(0, 1)
    /\ ret.normalized = EmptyImage

\* The squared distance of two points.
DistSq(a, b) == (a.x - b.x) * (a.x - b.x) + (a.y - b.y) * (a.y - b.y)

\* C14: warpToID1 returns an empty image if the corner list does not have
\* exactly 4 points or the frame is empty; otherwise the result is 540 wide
\* and 856 high when max(|BL-TL|, |BR-TR|) > max(|TR-TL|, |BR-BL|) over the
\* ordered corners, and 856 wide and 540 high in every other case, equality
\* included.
C14_WarpSizeFollowsOrientation ==
    Returned("warpToID1") =>
        LET src == args.src
            corners == args.corners
        IN  IF Len(corners) # 4 \/ src.rows = 0 \/ src.cols = 0
            THEN ret.rows = 0 /\ ret.cols = 0
            ELSE \E o \in orderCorners(corners) :
                    LET TL == o[1]
                        TR == o[2]
                        BR == o[3]
                        BL == o[4]
                        h2 == Max(DistSq(BL, TL), DistSq(BR, TR))
                        w2 == Max(DistSq(TR, TL), DistSq(BR, BL))
                    IN  IF h2 > w2
                        THEN ret.cols = 540 /\ ret.rows = 856
                        ELSE ret.cols = 856 /\ ret.rows = 540

\* A quadrilateral whose left edge (6) is longer than both widths (4, 5)
\* while its right edge (3) is not: the result is portrait.
C14_Witness ==
    /\ Returned("warpToID1")
    /\ args.corners = Trapezoid
    /\ args.src.rows = 10
    /\ ret.cols = 540 /\ ret.rows = 856

\* The gray value of pixel i of an 8-bit image.
GrayAt(src, i) == toGray(src).data[i][1]

\* The original statement of C18: for a non-empty 8-bit image detectGlare
\* returns the number of pixels of gray value >= 240 divided by the number
\* of pixels (a pixel of exactly 240 counts), a value in [0, 1]; for an empty
\* image it returns 1.0.
C18_GlareCountsFrom240 ==
    Returned("detectGlare") =>
        LET src == args.src
            total == src.rows * src.cols
        IN  IF total = 0 THEN RatEq(ret, Rat(1, 1))
            ELSE /\ RatEq(ret, Rat(Cardinality({i \in 1 .. total : GrayAt(src, i) >= 240}),
                                   total))
                 /\ RatLeq(Rat(0, 1), ret) /\ RatLeq(ret, Rat(1, 1))

\* C18 as amended: for a non-empty 8-bit image detectGlare returns the number
\* of pixels of gray value strictly above 240 divided by the number of
\* pixels (a pixel of exactly 240 does not count), a value in [0, 1]; for an
\* empty image it returns 1.0.
C18_GlareCountsAbove240 ==
    Returned("detectGlare") =>
        LET src == args.src
            total == src.rows * src.cols
        IN  IF total = 0 THEN RatEq(ret, Rat(1, 1))
            ELSE /\ RatEq(ret, Rat(Cardinality({i \in 1 .. total : GrayAt(src, i) > 240}),
                                   total))
                 /\ RatLeq(Rat(0, 1), ret) /\ RatLeq(ret, Rat(1, 1))

\* One pixel of 240 and one of 241: half of the image is glare.
C18_Witness ==
    /\ Returned("detectGlare")
    /\ args.src.data = <<<<240>>, <<241>>>>
    /\ ret = Rat(1, 2)

\* The lighter MRZ profile: grayscale, 3 x 3 Gaussian blur, adaptive
\* threshold with block 13 and constant 10.
SpecMrzProfile(channels) ==
    (IF channels \in {3, 4} THEN <<Step("cvtColor", <<channels, 1>>)>> ELSE <<>>)
    \o <<Step("GaussianBlur", <<3, 3>>), Step("adaptiveThreshold", <<255, 13, 10>>)>>

\* C19: extractMRZRegion crops the full-width rows [floor(0.72 * H), H) of
\* the card and then applies the lighter MRZ profile only; the steps it runs
\* contain no CLAHE, no denoising and no median blur and differ from the
\* steps of binarizeForOCR.
C19_MrzRegionUsesLighterProfile ==
    (Returned("extractMRZRegion") /\ ~empty(args.src)) =>
        LET src == args.src
            top == (72 * src.rows) \div 100
            crop == <<Step("crop", <<0, top, src.cols, src.rows - top>>)>>
        IN  /\ ret.rows = src.rows - top
            /\ ret.cols = src.cols
            /\ ret.steps = crop \o SpecMrzProfile(src.channels)
            /\ \A i \in DOMAIN ret.steps :
                  ret.steps[i].op \notin {"CLAHE", "fastNlMeansDenoising", "medianBlur"}
            /\ ret.steps # crop \o binarizeForOCR(src).steps

\* C15: for every non-empty card of width W and height H and every region
\* the lookup returns, the rectangle (x, y, w, h) that extractROI crops
\* satisfies 0 <= x <= W-1, 0 <= y <= H-1, w >= 1, h >= 1, x + w <= W and
\* y + h <= H; the crop is never empty.
C15_CropLiesInsideTheCard ==
    (Returned("extractROI") /\ ~empty(args.warpedCard)) =>
        LET W == args.warpedCard.cols
            H == args.warpedCard.rows
            r == work.roiRect
        IN  /\ 0 <= r.x /\ r.x <= W - 1
            /\ 0 <= r.y /\ r.y <= H - 1
            /\ r.width >= 1 /\ r.height >= 1
            /\ r.x + r.width <= W
            /\ r.y + r.height <= H
            /\ ret.cols = r.width /\ ret.rows = r.height
            /\ Len(ret.data) = r.width * r.height

\* The name field on a card 3 wide and 1 high: 0.10 of the height is less
\* than a pixel and the rectangle is raised to one row.
C15_Witness ==
    /\ Returned("extractROI")
    /\ args.warpedCard.cols = 3 /\ args.warpedCard.rows = 1
    /\ args.type = "NAME" /\ ~args.isBackSide
    /\ work.roiRect = [x |-> 0, y |-> 0, width |-> 1, height |-> 1]

\* C16: extractROI with field type PHOTO returns the cropped rectangle with
\* every pixel value and the channel count as in the source card; with any
\* other field type it returns a single-channel image whose pixels are all
\* 0 or 255.
C16_PhotoUntouchedOthersBinary ==
    (Returned("extractROI") /\ ~empty(args.warpedCard)) =>
        LET card == args.warpedCard
            r == work.roiRect
        IN  IF args.type = "PHOTO"
            THEN /\ ret.channels = card.channels
                 /\ ret.rows = r.height /\ ret.cols = r.width
                 /\ \A i \in 0 .. r.height - 1, j \in 0 .. r.width - 1 :
                       ret.data[i * r.width + j + 1]
                          = card.data[(r.y + i) * card.cols + (r.x + j) + 1]
            ELSE /\ ret.channels = 1
                 /\ \A k \in DOMAIN ret.data :
                       Len(ret.data[k]) = 1 /\ ret.data[k][1] \in {0, 255}

\* The photo of a 3 x 3 BGR card: the pixel of row 0, column 2, unchanged.
C16_Witness ==
    /\ Returned("extractROI")
    /\ args.warpedCard = Card(3, 3, 3)
    /\ args.type = "PHOTO" /\ ~args.isBackSide
    /\ ret = [rows |-> 1, cols |-> 1, channels |-> 3, data |-> <<<<111, 177, 249>>>>]

\* The table of the front regions by field type, in hundredths of the card.
SpecFrontTable ==
    [TCKN      |-> <<3, 20, 28, 12, FALSE, 15, 8>>,
     SURNAME   |-> <<3, 38, 55, 10, FALSE, 21, 5>>,
     NAME      |-> <<3, 48, 55, 10, FALSE, 21, 5>>,
     BIRTHDATE |-> <<3, 58, 40, 10, FALSE, 17, 6>>,
     SERIAL    |-> <<3, 68, 35, 10, FALSE, 15, 7>>,
     PHOTO     |-> <<68, 18, 28, 45, FALSE, 0, 0>>]

\* A region as the row <<x, y, w, h, invert, block, C>>.
RowOf(region) ==
    <<region.x, region.y, region.width, region.height, region.invertColors,
      region.binarizeBlockSize, region.binarizeC>>

\* The region that the table gives for a lookup: the back-side MRZ region
\* for every type, the front row for the six tabulated types.
IsTabulated(region, type, isBackSide) ==
    /\ isBackSide => RowOf(region) = <<0, 72, 100, 28, TRUE, 11, 4>>
    /\ (~isBackSide /\ type \in DOMAIN SpecFrontTable) =>
          RowOf(region) = SpecFrontTable[type]

\* C17: getROIRegion(type, true) returns the back-side MRZ region (x 0,
\* y .72, w 1.0, h .28, inverted, block 11, C 4) for every field type, and
\* getROIRegion(type, false) returns the tabulated front rectangle and
\* thresholds for TCKN, SURNAME, NAME, BIRTHDATE, SERIAL and PHOTO; the
\* region that an extraction works with is the tabulated one as well.
C17_LookupReturnsTheTable ==
    /\ Returned("getROIRegion") => IsTabulated(ret, args.type, args.isBackSide)
    /\ (Returned("extractROI") /\ ~empty(args.warpedCard)) =>
          IsTabulated(work.region, args.type, args.isBackSide)

\* The birth date on the front side.
C17_Witness ==
    /\ Returned("getROIRegion")
    /\ args.type = "BIRTHDATE" /\ ~args.isBackSide
    /\ ret = FrontROI_BIRTHDATE

\* The JNI entry points by what they hand back.
JniImageOps ==
    {"NativeProcessor.processImageForOCR", "NativeProcessor.extractMRZRegion",
     "NativeProcessor.extractROI", "NativeProcessor.warpToID1"}

JniBitmapOps ==
    JniImageOps \cup {"NativeProcessor.detectGlare", "NativeProcessor.getCardConfidence",
                      "NativeProcessor.calculateBlurScore",
                      "NativeProcessor.calculateStability"}

JniStringOps ==
    {"NativeProcessor.validateMRZWithScore", "NativeProcessor.validateTCKNNative"}

\* A bitmap that cannot be read.
Unreadable(bitmap) == ~bitmap.info \/ bitmap.format # "RGBA_8888" \/ ~bitmap.lock

\* The call met a failure: a bitmap that cannot be read, string characters
\* that cannot be obtained, or an exception thrown inside.
JniFailure ==
    \/ args.throws
    \/ args.op \in JniBitmapOps /\ Unreadable(args.bitmap)
    \/ args.op = "NativeProcessor.calculateStability" /\ Unreadable(args.previousBitmap)
    \/ args.op \in JniStringOps /\ ~args.chars

\* The neutral value of an entry point.
JniNeutral(op) ==
    CASE op = "NativeProcessor.detectGlare" -> 100
      [] op = "NativeProcessor.getCardConfidence" -> 0
      [] op = "NativeProcessor.calculateBlurScore" -> 0
      [] op = "NativeProcessor.calculateStability" -> Rat(0, 1)
      [] op \in JniImageOps -> Null
      [] op = "NativeProcessor.validateMRZWithScore" -> 0
      [] op = "NativeProcessor.validateTCKNNative" -> FALSE

\* C20: at the JNI boundary every entry point maps a failure to its neutral
\* value and lets no exception escape: detectGlare returns 100,
\* getCardConfidence 0, calculateBlurScore and calculateStability 0.0, the
\* image-returning operations null, and validateMRZWithScore and
\* validateTCKNNative return a value (0 / false) as well.
C20_FailuresBecomeNeutralValues ==
    (pc = "returned" /\ args.op \in JniBitmapOps \cup JniStringOps) =>
        /\ ret.kind = "value"
        /\ JniFailure => ret.value = JniNeutral(args.op)

\* The result of a call when it runs alone.
Alone(call) ==
    CASE call.op = "calculateChecksum" -> calculateChecksum(call.data)
      [] call.op = "correctOCRErrors" -> correctOCRErrors(call.line)
      [] call.op = "getROIRegion" -> getROIRegion(call.type, call.isBackSide)
      [] call.op = "detectGlare" -> detectGlare(call.src)

CountOf(s, p) == Cardinality({i \in DOMAIN s : s[i] = p})

\* (TL, TR, BR, BL) out of the four points given: the same points as often,
\* the top pair not below the bottom pair, each pair from left to right.
IsOrderingOf(o, corners) ==
    /\ Len(o) = 4
    /\ \A i \in 1 .. 4 : CountOf(o, corners[i]) = CountOf(corners, corners[i])
    /\ o[1].y <= o[3].y /\ o[1].y <= o[4].y
    /\ o[2].y <= o[3].y /\ o[2].y <= o[4].y
    /\ o[1].x <= o[2].x
    /\ o[4].x <= o[3].x

\* Two different points, one of the top pair and one of the bottom pair,
\* have the same y.
TieAcrossTheSplit(o) ==
    \E i \in {1, 2}, j \in {3, 4} : o[i].y = o[j].y /\ o[i] # o[j]

C23_AcceptedTCKNIsAllDigits ==
    Returned("validateTCKN") /\ ret.value =>
        /\ Len(args.tckn) = 11
        /\ \A i \in 1 .. 11 : args.tckn[i] >= 48 /\ args.tckn[i] <= 57

\* "12345678028", a number whose 9th digit is 0, is accepted.
C23_Witness ==
    /\ Returned("validateTCKN")
    /\ args.tckn = <<49, 50, 51, 52, 53, 54, 55, 56, 48, 50, 56>>
    /\ ret.value = TRUE

\* [A-Z0-9<] without O, I, S, B, G, D, Q, Z.
CorrectedAlphabet == MrzAlphabet \ {79, 73, 83, 66, 71, 68, 81, 90}

\* C24: correctOCRErrors returns a string of the length of its input over
\* [A-Z0-9<] without O, I, S, B, G, D, Q, Z, which a second correction
\* leaves as it is; correctedLine1/2/3 of validateWithScore are the
\* corrections of the raw lines at the length of the raw lines.
C24_CorrectionIsIdempotent ==
    /\ Returned("correctOCRErrors") =>
         /\ Len(ret.value) = Len(args.line)
         /\ \A i \in 1 .. Len(ret.value) : ret.value[i] \in CorrectedAlphabet
         /\ correctOCRErrors(ret.value) = ret.value
    /\ Returned("validateWithScore") =>
         \A k \in 1 .. 3 :
             /\ Len(CorrectedLines[k]) = Len(RawLines[k])
             /\ CorrectedLines[k] = correctOCRErrors(RawLines[k])
             /\ \A i \in 1 .. Len(CorrectedLines[k]) :
                   CorrectedLines[k][i] \in CorrectedAlphabet

\* "Zs" has been corrected to "25".
C24_Witness ==
    /\ Returned("correctOCRErrors")
    /\ args.line = <<90, 83>>
    /\ ret.value = <<50, 53>>
    /\ correctOCRErrors(ret.value) = <<50, 53>>

\* A misread line 1 of 14 characters is reported corrected with its 14
\* characters.
C24_WitnessCorrectedLine ==
    /\ Returned("validateWithScore")
    /\ args.line1 = SubSeq(Line1Misread, 1, 14)
    /\ Len(ret.correctedLine1) = 14
    /\ ret.correctedLine1 # args.line1

\* The line is empty or holds only characters the correction turns into
\* fillers or keeps as fillers ('<', ' ', '.').
AllFiller(line) == \A i \in 1 .. Len(line) : correctOCRChar(line[i]) = 60

\* C25: a check whose check-digit position holds a filler is not valid;
\* three empty or all-filler lines score 0 with the four flags false although
\* the checksum of each all-filler field is 0; a line 1 shorter than 15
\* characters gives docNumValid false and a line 2 shorter than 30
\* characters compositeValid false.
C25_FillerCheckDigitIsNeverValid ==
    Returned("validateWithScore") =>
        /\ work.line1[15] = 60 => ~ret.docNumValid
        /\ work.line2[7] = 60 => ~ret.dobValid
        /\ work.line2[15] = 60 => ~ret.expiryValid
        /\ work.line2[30] = 60 => ~ret.compositeValid
        /\ Len(args.line1) < 15 => ~ret.docNumValid
        /\ Len(args.line2) < 30 => ~ret.compositeValid
        /\ (\A k \in 1 .. 3 : AllFiller(RawLines[k])) =>
              /\ ret.totalScore = 0
              /\ \A f \in DOMAIN Flags(ret) : ~Flags(ret)[f]
              /\ calculateChecksum(substr(work.line1, 5, 9)) = 0
              /\ calculateChecksum(substr(work.line2, 0, 6)) = 0
              /\ calculateChecksum(substr(work.line2, 8, 6)) = 0

\* Three empty lines have been validated: the working copies are 30 fillers
\* each and the score is 0.
C25_Witness ==
    /\ Returned("validateWithScore")
    /\ args.line1 = <<>> /\ args.line2 = <<>> /\ args.line3 = <<>>
    /\ work.line1 = [i \in 1 .. 30 |-> 60]
    /\ ret.totalScore = 0

\* C26: a CornerResult with detected = true has exactly 4 corners and a
\* confidence of at least 0.1, so that detected is true exactly when the
\* confidence is above 0.
C26_DetectedHasFourCornersAndConfidence ==
    Returned("findCardCorners") =>
        /\ ret.detected =>
              /\ Len(ret.corners) = 4
              /\ RatLeq(Rat(1, 10), ret.confidence)
        /\ ret.detected <=> ret.confidence.num > 0

\* A card of exactly 5% of the frame, behind a contour just below 5%, is
\* detected with confidence 0.1.
C26_Witness ==
    /\ Returned("findCardCorners")
    /\ args.src.rows = 10 /\ args.src.cols = 10
    /\ args.src.contours = <<Contour(4, OtherQuad), Contour(5, CardQuad)>>
    /\ ret.detected
    /\ ret.corners = CardQuad
    /\ RatEq(ret.confidence, Rat(1, 10))

\* The first 30 characters of a line, the whole line if it is shorter.
First30(line) == SubSeq(line, 1, Min(Len(line), 30))

\* The five scores of a ValidationScore.
Scores(score) ==
    [totalScore |-> score.totalScore, docNumScore |-> score.docNumScore,
     dobScore |-> score.dobScore, expiryScore |-> score.expiryScore,
     compositeScore |-> score.compositeScore]

\* C27: the flags and scores of a call are those of the call on the first
\* 30 characters of line 1 and of line 2 with an empty line 3; two calls
\* that agree on these characters therefore return the same flags and
\* scores, whatever line 3 is, whatever follows character 30 and whether or
\* not line1[16..26] is a valid TCKN.
C27_ScoresDependOnFirst30Only ==
    Returned("validateWithScore") =>
        LET short == validateWithScore(First30(args.line1), First30(args.line2), <<>>)
        IN  /\ Flags(ret) = Flags(short)
            /\ Scores(ret) = Scores(short)

\* A line 1 of 31 characters with a valid TCKN at 16..26 and a full line 3:
\* all four checks pass, as they do without the 31st character and line 3.
C27_Witness ==
    /\ Returned("validateWithScore")
    /\ Len(args.line1) = 31
    /\ validateTCKN(substr(work.line1, 16, 11))
    /\ args.line3 = Line3Plain
    /\ ret.totalScore = 60
    /\ validateWithScore(First30(args.line1), args.line2, <<>>).totalScore = 60

\* The field types with a rectangle of their own on the front side.
FrontTypes == {"TCKN", "SURNAME", "NAME", "BIRTHDATE", "SERIAL", "PHOTO"}

\* C28: on the front side a lookup of MRZ, EXPIRY or a value outside the
\* enumeration returns the TCKN region (x .03, y .20, w .28, h .12, block
\* 15, C 8); extractROI(card, MRZ, false) crops that rectangle, not the
\* bottom 28% of the card, and still applies the filters of the MRZ branch,
\* which the requested type selects, not those the TCKN region asks for.
C28_FrontFallbackIsTCKN ==
    /\ (Returned("getROIRegion") /\ ~args.isBackSide /\ args.type \notin FrontTypes) =>
          RowOf(ret) = <<3, 20, 28, 12, FALSE, 15, 8>>
    /\ (Returned("extractROI") /\ ~empty(args.warpedCard) /\ ~args.isBackSide
           /\ args.type \notin FrontTypes) =>
          LET W == args.warpedCard.cols
              H == args.warpedCard.rows
              x == Min((3 * W) \div 100, W - 1)
              y == Min((20 * H) \div 100, H - 1)
          IN  /\ RowOf(work.region) = <<3, 20, 28, 12, FALSE, 15, 8>>
              /\ work.roiRect = [x |-> x, y |-> y,
                                 width |-> Max(1, Min((28 * W) \div 100, W - x)),
                                 height |-> Max(1, Min((12 * H) \div 100, H - y))]
              /\ ret.cols = work.roiRect.width /\ ret.rows = work.roiRect.height
              /\ work.filters =
                    IF args.type = "MRZ"
                    THEN <<Step("GaussianBlur", <<3, 3, 0>>),
                           Step("adaptiveThreshold", <<255, 13, 10>>)>>
                    ELSE <<Step("CLAHE", <<3, 4, 4>>),
                           Step("adaptiveThreshold", <<255, 15, 8>>),
                           Step("morphologyEx", <<"CLOSE", 1, 1>>)>>

\* The MRZ requested on the front of a 3 x 3 card: the top-left pixel is
\* cropped, where the back-side region is the bottom row, and the MRZ
\* filters are applied.
C28_Witness ==
    /\ Returned("extractROI")
    /\ args.warpedCard = Card(3, 3, 1)
    /\ args.type = "MRZ" /\ ~args.isBackSide
    /\ work.region = FrontROI_TCKN
    /\ work.roiRect = [x |-> 0, y |-> 0, width |-> 1, height |-> 1]
    /\ roiRect(BackROI_MRZ, args.warpedCard) = [x |-> 0, y |-> 2, width |-> 3, height |-> 1]
    /\ work.filters[2] = Step("adaptiveThreshold", <<255, 13, 10>>)
    /\ ret.rows = 1 /\ ret.cols = 1

=============================================================================
